---- MODULE Spec2Model ----
(***************************************************************************)
(* Model of the launch core of context-launcher:                           *)
(*   - launchers/base.py, launchers/browsers, launchers/editors,           *)
(*     launchers/apps: the launchers and their launch() contract           *)
(*   - launchers/factory.py: the launcher registry and create_launcher     *)
(*   - core/workflow_executor.py: execute_workflow / _execute_step         *)
(*   - ui/main_window.py: _launch_session (the direct launch path)         *)
(* Strings built with f-strings are modelled as tuples of their parts, so  *)
(* that "the message contains the id" is a membership test.                *)
(***************************************************************************)
EXTENDS Integers, Sequences, FiniteSets, TLC

\* ---------------------------------------------------------------------
\* Bounds of the model
\* ---------------------------------------------------------------------
\* longest workflow of the sequencing specification Spec
MaxSteps == 3
\* longest workflow of the step-resolution specification SpecSteps
MaxTargetSteps == 2
\* `order` values are drawn from 0..MaxOrder
MaxOrder == 1

\* ---------------------------------------------------------------------
\* launchers/base.py
\* ---------------------------------------------------------------------
\* class AppType(Enum): the values the enum accepts
AppType == {"browser", "editor", "communication", "generic"}

\* LaunchResult.success_result(message, process_id)
success_result(message) ==
    [kind |-> "result", success |-> TRUE, message |-> message, spawned |-> TRUE]

\* LaunchResult.error_result(message, error)
error_result(message, spawned) ==
    [kind |-> "result", success |-> FALSE, message |-> message, spawned |-> spawned]

\* an exception leaving the callee: exc is the exception class, message is str(e)
raised(exc, message, spawned) ==
    [kind |-> "raised", exc |-> exc, message |-> message, spawned |-> spawned]

\* ---------------------------------------------------------------------
\* The host: platform and file system as the launchers see them
\* ---------------------------------------------------------------------
\* executables the launchers look for: the default install location of an
\* application (named by the application) or an explicit path of a session
CodePath == "/opt/vscode/code"
ToolPath == "/opt/tool/run"
\* the files whose presence varies from host to host; every other default
\* install location is absent
HostFiles == {"chrome", "slack", "obsidian", CodePath, ToolPath}

\* popen: what subprocess.Popen does with a file that exists: it starts the
\* process, or raises OSError (permission denied), or raises
\* FileNotFoundError (a script whose interpreter is missing, or a file
\* removed since the check)
Hosts ==
    [platform : {"win32", "darwin", "linux"},
     exists : SUBSET HostFiles,
     popen : {"ok", "OSError", "FileNotFoundError"}]

\* subprocess.Popen(args): the outcome of spawning executable exe
Popen(exe, host) ==
    IF exe \notin host.exists THEN "FileNotFoundError" ELSE host.popen

\* UWP_APP_REGISTRY (launchers/apps/uwp.py): the keys the model uses
UWP_APP_REGISTRY == {"calculator", "spotify"}

\* the 'tabs' key of the parameters: absent, a list of url tabs, or a value
\* that is not a list
NoTabs == [kind |-> "absent", urls |-> <<>>]
TabList(urls) == [kind |-> "list", urls |-> urls]

\* LaunchConfiguration.parameters: the keys the launchers of the model read
\* ("" stands for an absent key)
Parameters(executable_path, aumid) ==
    [executable_path |-> executable_path, aumid |-> aumid,
     tabs |-> NoTabs, workspace |-> "", folder |-> ""]

\* parameters of a browser LaunchSpec: {"tabs": tabs}
BrowserParameters(tabs) == [Parameters("", "") EXCEPT !.tabs = tabs]

\* parameters of an editor LaunchSpec: {"workspace": ..., "folder": ...}
EditorParameters(executable_path, workspace, folder) ==
    [Parameters(executable_path, "") EXCEPT !.workspace = workspace,
                                            !.folder = folder]

\* LaunchConfig(app_type, app_name, parameters, platform)
LaunchConfig(app_type, app_name, parameters) ==
    [app_type |-> app_type, app_name |-> app_name, parameters |-> parameters]

\* str.lower() on the identifiers of the model
lower(name) ==
    CASE name = "Chrome" -> "chrome"
      [] name = "MyTool" -> "mytool"
      [] name = "Code.exe" -> "code.exe"
      [] name = "Spotify.exe" -> "spotify.exe"
      [] name = "Discord.exe" -> "discord.exe"
      [] OTHER -> name

\* ---------------------------------------------------------------------
\* launchers/browsers/base_browser.py (ChromeLauncher, FirefoxLauncher and
\* EdgeLauncher inherit launch and validate_config unchanged)
\* ---------------------------------------------------------------------
\* ChromeLauncher.get_executable_path: the configured or default install
\* location when it exists, else ExecutableNotFoundError
browser_get_executable_path(self, host) ==
    LET app == CASE self.cls = "ChromeLauncher" -> "chrome"
                 [] self.cls = "FirefoxLauncher" -> "firefox"
                 [] OTHER -> "edge"
    IN IF app \in host.exists
       THEN [ok |-> TRUE, path |-> app]
       ELSE [ok |-> FALSE, path |-> ""]

\* BrowserLauncher.launch
BrowserLauncher_launch(self, host) ==
    LET exe == browser_get_executable_path(self, host) IN
    IF ~exe.ok
    THEN \* validate_config raises ExecutableNotFoundError: caught, line 40
         error_result(<<self.config.app_name, " executable not found">>, FALSE)
    ELSE IF self.tabs.kind # "list"
    THEN \* validate_config returns False: isinstance(self.tabs, list), line 62
         error_result(<<"Invalid configuration">>, FALSE)
    ELSE CASE Popen(exe.path, host) = "ok" ->
                success_result(<<"Successfully launched ", self.config.app_name>>)
           [] Popen(exe.path, host) = "FileNotFoundError" ->
                \* _launch_native raises ExecutableNotFoundError: caught, line 40
                error_result(<<"Executable not found: ", exe.path>>, FALSE)
           [] OTHER ->
                error_result(<<"Launch failed: ", Popen(exe.path, host)>>, FALSE)

\* ---------------------------------------------------------------------
\* launchers/editors/vscode.py
\* ---------------------------------------------------------------------
\* VSCodeLauncher._resolve_executable_path: the first configured path is
\* returned whether or not it exists
resolve_executable_path(path_config) == path_config

\* VSCodeLauncher.get_executable_path
vscode_get_executable_path(self, host) ==
    IF self.executable_path_override # ""
    THEN [ok |-> TRUE, path |-> self.executable_path_override]
    ELSE IF "vscode" \in host.exists
         THEN [ok |-> TRUE, path |-> "vscode"]
         ELSE [ok |-> FALSE, path |-> ""]

\* VSCodeLauncher.launch
VSCodeLauncher_launch(self, host) ==
    LET exe == vscode_get_executable_path(self, host) IN
    IF ~exe.ok
    THEN \* raised inside the try, not a FileNotFoundError: caught, line 91
         error_result(<<"Launch failed: ", "VS Code executable not found">>, FALSE)
    ELSE CASE Popen(exe.path, host) = "ok" ->
                success_result(<<"Successfully launched VS Code with ",
                                 IF self.workspace # "" THEN self.workspace
                                 ELSE IF self.folder # "" THEN self.folder
                                 ELSE "VS Code">>)
           [] Popen(exe.path, host) = "FileNotFoundError" ->
                \* line 89: re-raised as ExecutableNotFoundError
                raised("ExecutableNotFoundError",
                       <<"VS Code executable not found">>, FALSE)
           [] OTHER ->
                error_result(<<"Launch failed: ", Popen(exe.path, host)>>, FALSE)

\* ---------------------------------------------------------------------
\* core/app_registry.py: the platform application registry
\* ---------------------------------------------------------------------
\* APP_REGISTRY: the keys the model uses
APP_REGISTRY == {"chrome", "slack", "obsidian"}

NoCommand == [found |-> FALSE, exe |-> "", method |-> ""]

\* find_app_executable(app_name): the first registered install location that
\* exists
find_app_executable(app_name, host) ==
    IF lower(app_name) \notin APP_REGISTRY THEN NoCommand
    ELSE IF lower(app_name) \in host.exists
         THEN [found |-> TRUE, exe |-> lower(app_name), method |-> "direct"]
         ELSE NoCommand

\* get_app_launch_command(app_name): the registered executable, and on macOS
\* 'open -a' on the bundle or, when no bundle is found, on the display name
get_app_launch_command(app_name, host) ==
    LET exe_path == find_app_executable(app_name, host) IN
    IF host.platform = "darwin"
    THEN IF exe_path.found
         THEN [found |-> TRUE, exe |-> exe_path.exe, method |-> "open"]
         ELSE [found |-> TRUE, exe |-> app_name, method |-> "open"]
    ELSE exe_path

\* ---------------------------------------------------------------------
\* launchers/apps/generic.py
\* ---------------------------------------------------------------------
\* GenericAppLauncher.launch (SlackLauncher and SpotifyLauncher inherit it)
GenericAppLauncher_launch(self, host) ==
    IF self.executable_path = ""
    THEN \* validate_config raises ConfigurationError: caught, line 59
         error_result(<<"Launch failed: ", "Executable path is required">>, FALSE)
    ELSE IF self.executable_path \notin host.exists
    THEN \* validate_config raises ExecutableNotFoundError: caught, line 59
         error_result(<<"Launch failed: ", "Executable not found: ",
                        self.executable_path>>, FALSE)
    ELSE CASE Popen(self.executable_path, host) = "ok" ->
                success_result(<<"Successfully launched ", self.executable_path>>)
           [] Popen(self.executable_path, host) = "FileNotFoundError" ->
                \* line 55: re-raised as ExecutableNotFoundError
                raised("ExecutableNotFoundError",
                       <<"Executable not found: ", self.executable_path>>, FALSE)
           [] OTHER ->
                error_result(<<"Launch failed: ",
                               Popen(self.executable_path, host)>>, FALSE)

\* SlackLauncher._find_slack_executable / SpotifyLauncher._find_spotify_executable
find_executable(app, host) ==
    IF app \in host.exists
    THEN [ok |-> TRUE, path |-> app]
    ELSE [ok |-> FALSE, path |-> ""]

\* ---------------------------------------------------------------------
\* launchers/apps/uwp.py
\* ---------------------------------------------------------------------
\* UWPLauncher.launch: the protocol or AUMID comes from the parameters or
\* from UWP_APP_REGISTRY; explorer.exe / powershell are always present on
\* Windows
UWPLauncher_launch(self, host) ==
    IF host.platform # "win32"
    THEN error_result(<<"UWP apps are only supported on Windows">>, FALSE)
    ELSE IF self.aumid # ""
    THEN CASE host.popen = "ok" ->
                success_result(<<"Successfully launched ", self.config.app_name>>)
           [] OTHER -> error_result(<<"Launch failed: ", host.popen>>, FALSE)
    ELSE error_result(<<"Could not find UWP app '", self.config.app_name,
                        "'. Provide an AUMID or protocol URI.">>, FALSE)

\* BaseLauncher.launch, dispatched on the class of the instance
launch(self, host) ==
    CASE self.cls \in {"ChromeLauncher", "FirefoxLauncher", "EdgeLauncher"} ->
            BrowserLauncher_launch(self, host)
      [] self.cls = "VSCodeLauncher" -> VSCodeLauncher_launch(self, host)
      [] self.cls = "UWPLauncher" -> UWPLauncher_launch(self, host)
      [] OTHER -> GenericAppLauncher_launch(self, host)

\* ---------------------------------------------------------------------
\* The constructors (__init__) of the launcher classes
\* ---------------------------------------------------------------------
\* BrowserLauncher.__init__: config.parameters.get('tabs', [])
get_tabs(parameters) ==
    IF parameters.tabs.kind = "absent" THEN TabList(<<>>) ELSE parameters.tabs

Instance(cls, config, executable_path, override, aumid) ==
    [kind |-> "launcher", cls |-> cls, config |-> config,
     executable_path |-> executable_path,
     executable_path_override |-> override, aumid |-> aumid,
     tabs |-> get_tabs(config.parameters),
     workspace |-> config.parameters.workspace,
     folder |-> config.parameters.folder]

\* SlackLauncher.__init__ / SpotifyLauncher.__init__: auto-detection when no
\* path is configured; a failed detection raises out of the constructor
AutoDetectInit(cls, app, config, host) ==
    IF config.parameters.executable_path # ""
    THEN Instance(cls, config, config.parameters.executable_path, "", "")
    ELSE IF find_executable(app, host).ok
         THEN Instance(cls, config, find_executable(app, host).path, "", "")
         ELSE raised("ExecutableNotFoundError", <<app, " not found">>, FALSE)

\* UWPLauncher.__init__: the AUMID of the parameters, else the registry's
UWPLauncher_init(config) ==
    Instance("UWPLauncher", config, "", "",
             IF config.parameters.aumid # "" THEN config.parameters.aumid
             ELSE IF lower(config.app_name) \in UWP_APP_REGISTRY
                  THEN "aumid-of-registry" ELSE "")

\* launcher_class(launch_config)
new(cls, config, host) ==
    CASE cls = "SlackLauncher" -> AutoDetectInit(cls, "slack", config, host)
      [] cls = "SpotifyLauncher" -> AutoDetectInit(cls, "spotify", config, host)
      [] cls = "GenericAppLauncher" ->
            Instance(cls, config, config.parameters.executable_path, "", "")
      [] cls = "VSCodeLauncher" ->
            Instance(cls, config, "",
                     resolve_executable_path(config.parameters.executable_path), "")
      [] cls = "UWPLauncher" -> UWPLauncher_init(config)
      [] OTHER -> Instance(cls, config, "", "", "")

\* ---------------------------------------------------------------------
\* launchers/factory.py
\* ---------------------------------------------------------------------
\* LauncherFactory._registry as the class body builds it
InitialRegistry(platform) ==
    LET names == {"chrome", "firefox", "edge", "vscode", "slack", "spotify",
                  "generic"} \cup (IF platform = "win32" THEN {"uwp"} ELSE {})
    IN [n \in names |->
          CASE n = "chrome" -> "ChromeLauncher"
            [] n = "firefox" -> "FirefoxLauncher"
            [] n = "edge" -> "EdgeLauncher"
            [] n = "vscode" -> "VSCodeLauncher"
            [] n = "slack" -> "SlackLauncher"
            [] n = "spotify" -> "SpotifyLauncher"
            [] n = "generic" -> "GenericAppLauncher"
            [] OTHER -> "UWPLauncher"]

\* LauncherFactory.register_launcher
register_launcher(registry, app_name, launcher_class) ==
    [n \in DOMAIN registry \cup {lower(app_name)} |->
        IF n = lower(app_name) THEN launcher_class ELSE registry[n]]

\* LauncherFactory.unregister_launcher
unregister_launcher(registry, app_name) ==
    [n \in DOMAIN registry \ {lower(app_name)} |-> registry[n]]

\* the class LauncherFactory.create_launcher selects
select_launcher_class(registry, launch_config, host) ==
    LET app_name == lower(launch_config.app_name) IN
    IF app_name \in DOMAIN registry
    THEN registry[app_name]
    ELSE IF host.platform = "win32" /\ app_name \in UWP_APP_REGISTRY
         THEN "UWPLauncher"
         ELSE "GenericAppLauncher"

\* create_launcher without the fallback: an identifier that is not registered
\* has no launcher
create_launcher_registered_only(registry, launch_config, host) ==
    IF lower(launch_config.app_name) \in DOMAIN registry
    THEN new(registry[lower(launch_config.app_name)], launch_config, host)
    ELSE raised("LaunchError",
                <<"No launcher available for ", launch_config.app_name>>, FALSE)

\* LauncherFactory.create_launcher: a launcher instance, or the exception
\* the selected constructor raised
create_launcher(registry, launch_config, host) ==
    new(select_launcher_class(registry, launch_config, host), launch_config, host)

\* ---------------------------------------------------------------------
\* core/session.py
\* ---------------------------------------------------------------------
\* Session: the fields the launch paths read
Session(id, app_type, app_name, parameters) ==
    [id |-> id, launch_config |-> LaunchConfig(app_type, app_name, parameters)]

\* inline_config = None
NoConfig == LaunchConfig("", "", Parameters("", ""))

\* WorkflowStep; session_ref "" stands for None
WorkflowStep(order, delay_ms, session_ref, inline_config, continue_on_failure) ==
    [order |-> order, delay_ms |-> delay_ms, session_ref |-> session_ref,
     inline_config |-> inline_config, continue_on_failure |-> continue_on_failure]

\* the sessions the session helpers of core/session.py create
ChromeSession ==
    Session("s-chrome", "browser", "chrome", BrowserParameters(TabList(<<"url">>)))

AllSessions ==
    LET
        CodeSession ==
            Session("s-code", "editor", "vscode", EditorParameters(CodePath, "ws", ""))
        SlackSession == Session("s-slack", "communication", "slack", Parameters("", ""))
        ToolSession == Session("s-tool", "generic", "MyTool", Parameters(ToolPath, ""))
        \* create_uwp_session: app_type "uwp"
        CalcSession == Session("s-calc", "uwp", "calculator", Parameters("", ""))
    IN
    <<ChromeSession, CodeSession, SlackSession, ToolSession, CalcSession>>

\* ---------------------------------------------------------------------
\* core/workflow_executor.py
\* ---------------------------------------------------------------------
NoResult == [kind |-> "none"]

\* class StepStatus(str, Enum)
StepStatus == {"pending", "running", "success", "failed", "skipped"}

\* WorkflowStepResult (elapsed_ms is wall-clock time and is left out)
WorkflowStepResult(step_index, step, status, launch_result, error_message) ==
    [step_index |-> step_index, step |-> step, status |-> status,
     launch_result |-> launch_result, error_message |-> error_message]

\* next((s for s in sessions if s.id == step.session_ref), None)
RECURSIVE find_session(_, _)
find_session(sessions, session_ref) ==
    IF sessions = <<>> THEN [found |-> FALSE, session |-> ChromeSession]
    ELSE IF Head(sessions).id = session_ref
         THEN [found |-> TRUE, session |-> Head(sessions)]
         ELSE find_session(Tail(sessions), session_ref)

\* AppType(value): the enum lookup, ValueError for an unknown value
AppType_of(value) ==
    IF value \in AppType
    THEN [kind |-> "value", value |-> value]
    ELSE raised("ValueError", <<"'", value, "' is not a valid AppType">>, FALSE)

\* line 183 with a message that does not name the reference
session_not_found_unnamed(step) ==
    raised("ValueError", <<"Session reference not found">>, FALSE)

\* line 183: raise ValueError(f"Session reference not found: {step.session_ref}")
session_not_found(step) ==
    raised("ValueError", <<"Session reference not found: ", step.session_ref>>, FALSE)

\* lines 176-203 with the inline configuration tried before the reference
resolve_launch_config_inline_first(step, sessions) ==
    IF step.inline_config # NoConfig
    THEN IF AppType_of(step.inline_config.app_type).kind = "raised"
         THEN AppType_of(step.inline_config.app_type)
         ELSE [kind |-> "config", config |-> step.inline_config]
    ELSE IF step.session_ref # ""
    THEN LET f == find_session(sessions, step.session_ref) IN
         IF ~f.found
         THEN session_not_found(step)
         ELSE IF AppType_of(f.session.launch_config.app_type).kind = "raised"
              THEN AppType_of(f.session.launch_config.app_type)
              ELSE [kind |-> "config", config |-> f.session.launch_config]
    ELSE raised("ValueError",
                <<"Step has neither session_ref nor inline_config">>, FALSE)

\* lines 176-203 of _execute_step: the LaunchConfig of the step, or the
\* exception raised while resolving it
resolve_launch_config(step, sessions) ==
    IF step.session_ref # ""
    THEN LET f == find_session(sessions, step.session_ref) IN
         IF ~f.found
         THEN session_not_found(step)
         ELSE IF AppType_of(f.session.launch_config.app_type).kind = "raised"
              THEN AppType_of(f.session.launch_config.app_type)
              ELSE [kind |-> "config", config |-> f.session.launch_config]
    ELSE IF step.inline_config # NoConfig
    THEN IF AppType_of(step.inline_config.app_type).kind = "raised"
         THEN AppType_of(step.inline_config.app_type)
         ELSE [kind |-> "config", config |-> step.inline_config]
    ELSE raised("ValueError",
                <<"Step has neither session_ref nor inline_config">>, FALSE)

\* the except clause without error_message=str(e)
step_failed_without_message(e, step, index) ==
    WorkflowStepResult(index, step, "failed", NoResult, <<>>)

\* the except clause of _execute_step (lines 231-241)
step_failed_with(e, step, index) ==
    WorkflowStepResult(index, step, "failed", NoResult, e.message)

\* WorkflowExecutor._execute_step. result is the WorkflowStepResult; created,
\* launched, caught and str_e record what the call did: the class of the
\* launcher it created, whether launcher.launch() was invoked, and the class
\* and message of the exception the except clause caught.
execute_step(step, index, sessions, registry, host) ==
    LET cfg == resolve_launch_config(step, sessions) IN
    IF cfg.kind = "raised"
    THEN [result |-> step_failed_with(cfg, step, index),
          created |-> "", launched |-> FALSE, caught |-> cfg.exc,
          str_e |-> cfg.message]
    ELSE
    LET launcher == create_launcher(registry, cfg.config, host) IN
    IF launcher.kind = "raised"
    THEN [result |-> step_failed_with(launcher, step, index),
          created |-> "", launched |-> FALSE, caught |-> launcher.exc,
          str_e |-> launcher.message]
    ELSE
    LET launch_result == launch(launcher, host) IN
    IF launch_result.kind = "raised"
    THEN [result |-> step_failed_with(launch_result, step, index),
          created |-> launcher.cls, launched |-> TRUE, caught |-> launch_result.exc,
          str_e |-> launch_result.message]
    ELSE IF launch_result.success
    THEN [result |-> WorkflowStepResult(index, step, "success", launch_result, <<>>),
          created |-> launcher.cls, launched |-> TRUE, caught |-> "", str_e |-> <<>>]
    ELSE [result |-> WorkflowStepResult(index, step, "failed", launch_result,
                                        launch_result.message),
          created |-> launcher.cls, launched |-> TRUE, caught |-> "", str_e |-> <<>>]

\* a sort that puts s before the elements of the same order
RECURSIVE insert_before_ties(_, _)
insert_before_ties(s, sq) ==
    IF sq = <<>> THEN <<s>>
    ELSE IF Head(sq).order < s.order
         THEN <<Head(sq)>> \o insert_before_ties(s, Tail(sq))
         ELSE <<s>> \o sq

\* sorted(workflow.launch_sequence, key=lambda s: s.order): a stable sort.
\* insert_by_order puts s behind every element whose order is not larger.
RECURSIVE insert_by_order(_, _)
insert_by_order(s, sq) ==
    IF sq = <<>> THEN <<s>>
    ELSE IF Head(sq).order <= s.order
         THEN <<Head(sq)>> \o insert_by_order(s, Tail(sq))
         ELSE <<s>> \o sq

\* the steps taken in list position, unsorted
sorted_unsorted(launch_sequence) == launch_sequence

RECURSIVE sorted(_)
sorted(launch_sequence) ==
    IF launch_sequence = <<>> THEN <<>>
    ELSE insert_by_order(launch_sequence[Len(launch_sequence)],
                         sorted(SubSeq(launch_sequence, 1, Len(launch_sequence) - 1)))

\* ---------------------------------------------------------------------
\* core/window_manager.py: the desktop as the window backends see it
\* ---------------------------------------------------------------------
\* the processes of the desktop: the launched process, a process it spawns,
\* and a running browser of another vendor
RootPid == 1
ChildPid == 2
EdgePid == 3

\* the windows of the desktop, in the order the OS enumerates them
Hwnds == 1..5

\* the process that owns the window
owner(hwnd) ==
    CASE hwnd = 1 -> EdgePid
      [] hwnd = 4 -> ChildPid
      [] OTHER -> RootPid

\* win32gui.GetParent(hwnd) == 0 / kCGWindowLayer == 0
top_level(hwnd) == hwnd # 5

\* win32gui.GetWindowText(hwnd)
title(hwnd) == IF hwnd = 2 THEN "" ELSE "page"

\* win32gui.GetClassName(hwnd)
class_name(hwnd) ==
    CASE hwnd = 2 -> "Chrome_WidgetWin_0"
      [] hwnd = 5 -> "Intermediate D3D Window"
      [] OTHER -> "Chrome_WidgetWin_1"

\* class_pattern in class_name
class_matches(class_pattern, cls) ==
    CASE class_pattern = "Chrome_WidgetWin_" ->
            cls \in {"Chrome_WidgetWin_0", "Chrome_WidgetWin_1"}
      [] OTHER -> cls = class_pattern

\* the rectangle a window of the desktop starts with
Rect(x, y, width, height) == [x |-> x, y |-> y, width |-> width, height |-> height]
InitialRect(hwnd) == Rect(10 * hwnd, 20, 800, 600)

\* a window: shown is "hidden", "visible" or "minimized"
Window(shown, rect, maximized) ==
    [shown |-> shown, rect |-> rect, maximized |-> maximized]

\* @dataclass WindowState
WindowState(x, y, width, height, monitor_index, is_maximized, is_minimized) ==
    [x |-> x, y |-> y, width |-> width, height |-> height,
     monitor_index |-> monitor_index, is_maximized |-> is_maximized,
     is_minimized |-> is_minimized]

\* None where a WindowState is expected
NoState == [kind |-> "none"]

\* what get_window_state (state, None for NoState) or set_window_state (ok)
\* returned
Returned(state, ok) == [kind |-> "returned", state |-> state, ok |-> ok]

\* the process pid is running
live(pid, desktop) ==
    CASE pid = RootPid -> desktop.root_live
      [] pid = ChildPid -> desktop.child_live
      [] OTHER -> TRUE

\* psutil.Process(pid).name()
process_name(pid, platform) ==
    IF platform = "darwin"
    THEN CASE pid = RootPid -> "Google Chrome"
           [] pid = ChildPid -> "Google Chrome Helper"
           [] OTHER -> "Microsoft Edge"
    ELSE CASE pid = EdgePid -> "msedge.exe"
           [] OTHER -> "chrome.exe"

\* psutil.Process(pid).children(recursive=True): the live descendants, or
\* NoSuchProcess
children(pid, desktop) ==
    IF ~live(pid, desktop) THEN [ok |-> FALSE, pids |-> {}]
    ELSE [ok |-> TRUE,
          pids |-> IF pid = RootPid /\ desktop.child_live THEN {ChildPid} ELSE {}]

\* the first window of the enumeration in the set S (0 when S is empty)
first_of(S) == IF S = {} THEN 0 ELSE CHOOSE h \in S : \A g \in S : h <= g

\* win32gui.IsWindowVisible(hwnd): a minimized window is still visible
IsWindowVisible(hwnd, desktop) == desktop.windows[hwnd].shown # "hidden"

\* ---------------------------------------------------------------------
\* core/window_manager.py: WindowManager
\* ---------------------------------------------------------------------
\* the pids the enumeration callback accepts after one more look at the
\* process tree (lines 247-253); a process that is gone adds nothing
refresh_pids(pids_to_check, process_id, desktop) ==
    pids_to_check \cup children(process_id, desktop).pids

\* one win32gui.EnumWindows(callback) pass of _find_window_by_pid_windows:
\* the first visible, top-level, titled window of one of the pids (0: none)
enum_windows_by_pid(pids_to_check, desktop) ==
    first_of({h \in Hwnds : /\ IsWindowVisible(h, desktop)
                            /\ owner(h) \in pids_to_check
                            /\ top_level(h)
                            /\ title(h) # ""})

\* multi_process_apps of _set_window_state_windows
multi_process_apps == {"chrome", "firefox", "edge", "spotify", "discord", "slack"}

\* a _set_window_state_windows that tries PID matching for every app name
is_multi_process_app_never(app_name) == FALSE

\* line 154: app_name and app_name.lower() in multi_process_apps
is_multi_process_app(app_name) ==
    app_name # "" /\ lower(app_name) \in multi_process_apps

\* app_patterns of _find_window_by_app_name
app_patterns ==
    [chrome |-> [class |-> "Chrome_WidgetWin_", process |-> "chrome.exe"],
     firefox |-> [class |-> "MozillaWindowClass", process |-> "firefox.exe"],
     edge |-> [class |-> "Chrome_WidgetWin_", process |-> "msedge.exe"],
     vscode |-> [class |-> "Chrome_WidgetWin_", process |-> "Code.exe"],
     spotify |-> [class |-> "Chrome_WidgetWin_", process |-> "Spotify.exe"],
     discord |-> [class |-> "Chrome_WidgetWin_", process |-> "Discord.exe"],
     slack |-> [class |-> "Chrome_WidgetWin_", process |-> "slack.exe"]]

\* _find_window_by_app_name without the test of the owning process's name
find_window_by_class_only(app_name, desktop, platform) ==
    IF lower(app_name) \notin DOMAIN app_patterns THEN 0
    ELSE first_of({h \in Hwnds :
            /\ IsWindowVisible(h, desktop)
            /\ class_matches(app_patterns[lower(app_name)].class, class_name(h))
            /\ title(h) # ""})

\* _find_window_by_app_name: the first visible, titled window whose class
\* contains the pattern and whose process has the executable name (0: none)
find_window_by_app_name(app_name, desktop, platform) ==
    IF lower(app_name) \notin DOMAIN app_patterns THEN 0
    ELSE first_of({h \in Hwnds :
            /\ IsWindowVisible(h, desktop)
            /\ class_matches(app_patterns[lower(app_name)].class, class_name(h))
            /\ title(h) # ""
            /\ live(owner(h), desktop)
            /\ lower(process_name(owner(h), platform))
                  = lower(app_patterns[lower(app_name)].process)})

\* lines 119-137 with width and height taken as the right and bottom edges
read_window_state_edges(hwnd, desktop) ==
    LET w == desktop.windows[hwnd] IN
    IF w.shown = "closed"
    THEN raised("pywintypes.error", <<"Invalid window handle">>, FALSE)
    ELSE Returned(WindowState(w.rect.x, w.rect.y, w.rect.x + w.rect.width,
                              w.rect.y + w.rect.height,
                              0, w.maximized, w.shown = "minimized"), FALSE)

\* lines 119-137: GetWindowPlacement / GetWindowRect of the handle found; a
\* handle whose window is gone makes them raise
read_window_state(hwnd, desktop) ==
    LET w == desktop.windows[hwnd] IN
    IF w.shown = "closed"
    THEN raised("pywintypes.error", <<"Invalid window handle">>, FALSE)
    ELSE Returned(WindowState(w.rect.x, w.rect.y, w.rect.width, w.rect.height,
                              0, w.maximized, w.shown = "minimized"), FALSE)

\* the try of a window manager method without its except clause
except_propagates(r, default) == r

\* try: ... except Exception: log and return the default (None or False)
except_returns(r, default) == IF r.kind = "raised" THEN default ELSE r

\* a polling loop whose time.sleep(0.2) lets no time pass
time_sleep_stuck(elapsed) == elapsed

\* time.sleep(0.2) at the end of a turn of a polling loop: the time since the
\* call began, in polling intervals
time_sleep(elapsed) == elapsed + 1

\* the visible top-level windows of the process and its live descendants
windows_of_tree(process_id, desktop) ==
    {h \in Hwnds : /\ desktop.windows[h].shown = "visible"
                   /\ top_level(h)
                   /\ owner(h) \in {process_id} \cup children(process_id, desktop).pids}

\* lines 169-196: un-minimize, then maximize or restore and SetWindowPos;
\* the window after the calls and the calls made
position_window(w, state) ==
    LET
        \* the rectangle GetWindowRect gives for a window after SW_SHOWMAXIMIZED
        MaximizedRect == Rect(0, 0, 1920, 1080)
    IN
    LET restored == IF w.shown = "minimized" THEN <<"restore">> ELSE <<>> IN
    IF state.is_maximized
    THEN [window |-> Window("visible", MaximizedRect, TRUE),
          verbs |-> restored \o <<"maximize">>]
    ELSE [window |-> Window("visible",
                            Rect(state.x, state.y, state.width, state.height), FALSE),
          verbs |-> restored \o <<"restore", "setpos">>]

\* the window list entry _get_window_state_macos accepts: owned by the
\* process itself, with bounds, on screen, on layer 0 (0: none)
macos_window_of(process_id, desktop) ==
    first_of({h \in Hwnds : /\ owner(h) = process_id
                            /\ desktop.windows[h].shown = "visible"
                            /\ top_level(h)})

\* app_name_map of _set_window_state_macos
app_name_map(name) ==
    CASE name = "Google Chrome Helper" -> "Google Chrome"
      [] name = "Code Helper" -> "Visual Studio Code"
      [] name = "Code" -> "Visual Studio Code"
      [] name = "firefox" -> "Firefox"
      [] OTHER -> name

\* 'tell process "<app_name>" ... tell window 1': the first window of the
\* application with that name (0: the script fails)
script_window_of(app_name, desktop) ==
    first_of({h \in Hwnds : /\ live(owner(h), desktop)
                            /\ app_name_map(process_name(owner(h), "darwin")) = app_name
                            /\ desktop.windows[h].shown \in {"visible", "minimized"}})

\* ---------------------------------------------------------------------
\* State
\* ---------------------------------------------------------------------
VARIABLES
    host,               \* the machine the program runs on
    registry,           \* LauncherFactory._registry
    progress_callback,  \* WorkflowExecutor._progress_callback is set
    pc,                 \* position of execute_workflow
    launch_sequence,    \* workflow.launch_sequence, the argument
    sessions,           \* sessions, the argument
    sorted_steps,       \* local of execute_workflow
    index,              \* loop variable of execute_workflow (from 0)
    step_results,       \* local of execute_workflow
    outcome,            \* the WorkflowExecutionResult returned
    events,             \* what the run did, in order
    request,            \* the LaunchConfig of the last create_launcher call
    launcher,           \* what that call returned or raised
    launch_result,      \* what launcher.launch() returned or raised
    session_launch,     \* what the last _launch_session call did
    desktop,            \* the processes and windows of the desktop
    wm,                 \* the get_window_state / set_window_state call
    uwp                 \* the module globals of launchers/apps/uwp.py

vars == <<host, registry, progress_callback, pc, launch_sequence, sessions,
          sorted_steps, index, step_results, outcome, events,
          request, launcher, launch_result, session_launch, desktop, wm,
          uwp>>

window_vars == <<desktop, wm>>

workflow_vars == <<pc, launch_sequence, sessions, sorted_steps, index,
                   step_results, outcome, events, progress_callback>>
dispatch_vars == <<request, launcher, launch_result, session_launch>>

NoOutcome == [status |-> "pending"]

\* events of a run
Event(ev, i, what, text, ms) ==
    [ev |-> ev, index |-> i, what |-> what, text |-> text, ms |-> ms]
Created(i, cls) == Event("create", i, cls, <<>>, 0)
Launched(i) == Event("launch", i, "", <<>>, 0)
Called(i, status) == Event("callback", i, status, <<>>, 0)
Slept(i, ms) == Event("sleep", i, "", <<>>, ms)
Raised(i, status) == Event("raise", i, status, <<>>, 0)

\* ---------------------------------------------------------------------
\* WorkflowExecutor.execute_workflow, one action per stretch of the loop
\* ---------------------------------------------------------------------
\* WorkflowExecutor.set_progress_callback
SetProgressCallback ==
    /\ pc = "idle"
    /\ ~progress_callback
    /\ progress_callback' = TRUE
    /\ UNCHANGED <<uwp, window_vars, host, registry, pc, launch_sequence, sessions, sorted_steps,
                   index, step_results, outcome, events, dispatch_vars>>

\* lines 82-90: sort the steps and enter the loop
Start ==
    /\ pc = "idle"
    /\ sorted_steps' = sorted(launch_sequence)
    /\ index' = 0
    /\ pc' = IF launch_sequence = <<>> THEN "summary" ELSE "execute"
    /\ UNCHANGED <<uwp, window_vars, host, registry, progress_callback, launch_sequence, sessions,
                   step_results, outcome, events, dispatch_vars>>

\* lines 91-92: run the step and append its result
ExecuteStep ==
    LET
        Caught(i, exc, str_e) == Event("caught", i, exc, str_e, 0)
    IN
    /\ pc = "execute"
    /\ LET step == sorted_steps[index + 1]
           r == execute_step(step, index, sessions, registry, host)
       IN /\ step_results' = Append(step_results, r.result)
          /\ events' = events
                \o (IF r.created # "" THEN <<Created(index, r.created)>> ELSE <<>>)
                \o (IF r.launched THEN <<Launched(index)>> ELSE <<>>)
                \o (IF r.caught # "" THEN <<Caught(index, r.caught, r.str_e)>> ELSE <<>>)
    /\ pc' = "callback"
    /\ UNCHANGED <<uwp, window_vars, host, registry, progress_callback, launch_sequence, sessions,
                   sorted_steps, index, outcome, dispatch_vars>>

\* lines 95-96 and 112-113 with the skipped results left unreported
report_executed_only(callback, step_result) ==
    IF callback /\ step_result.status # "skipped"
    THEN <<Called(step_result.step_index, step_result.status)>>
    ELSE <<>>

\* lines 95-96 and 112-113: if self._progress_callback: the call, made with
\* the result, returns before the next statement runs
report(callback, step_result) ==
    IF callback
    THEN <<Called(step_result.step_index, step_result.status)>>
    ELSE <<>>

\* the calls lines 112-113 make for the results in rs, in their order
RECURSIVE report_all(_, _)
report_all(callback, rs) ==
    IF rs = <<>> THEN <<>>
    ELSE report(callback, Head(rs)) \o report_all(callback, Tail(rs))

\* lines 94-96: report the result just appended
ProgressCallback ==
    /\ pc = "callback"
    /\ events' = events \o report(progress_callback, step_results[Len(step_results)])
    /\ pc' = "check"
    /\ UNCHANGED <<uwp, window_vars, host, registry, progress_callback, launch_sequence, sessions,
                   sorted_steps, index, step_results, outcome, dispatch_vars>>

\* a loop that contains the exception of the callback and goes on
callback_exception_contained(next_pc) == next_pc

\* lines 95-96 and 112-113 are in no try block: an exception raised by the
\* callback leaves execute_workflow, whatever statement came next
callback_exception(next_pc) == "raised"

\* lines 95-96 with a callback that raises: called with the result just
\* appended
ProgressCallbackRaises ==
    /\ pc = "callback"
    /\ progress_callback
    /\ LET step_result == step_results[Len(step_results)] IN
       events' = events \o report(progress_callback, step_result)
                        \o <<Raised(step_result.step_index, step_result.status)>>
    /\ pc' = callback_exception("check")
    /\ UNCHANGED <<uwp, window_vars, host, registry, progress_callback, launch_sequence, sessions,
                   sorted_steps, index, step_results, outcome, dispatch_vars>>

\* line 99 without the test of continue_on_failure
stops_workflow_on_any_failure(step_result, step) ==
    step_result.status = "failed"

\* line 99 with the flag read the wrong way round
stops_workflow_inverted(step_result, step) ==
    step_result.status = "failed" /\ step.continue_on_failure

\* the condition of line 99
stops_workflow(step_result, step) ==
    step_result.status = "failed" /\ ~step.continue_on_failure

\* lines 103-113 with the range begun one step late
skipped_results_late(steps, from) ==
    [k \in 1..(Len(steps) - from - 1) |->
        WorkflowStepResult(from + k, steps[from + k + 1], "skipped", NoResult,
                           <<"Skipped due to previous failure">>)]

\* the results lines 103-113 append: one SKIPPED result per remaining step
skipped_results(steps, from) ==
    [k \in 1..(Len(steps) - from) |->
        WorkflowStepResult(from + k - 1, steps[from + k], "skipped", NoResult,
                           <<"Skipped due to previous failure">>)]

\* lines 99-115: the step failed and may not be continued
StopOnFailure ==
    /\ pc = "check"
    /\ stops_workflow(step_results[Len(step_results)], sorted_steps[index + 1])
    /\ LET skipped == skipped_results(sorted_steps, index + 1) IN
       /\ step_results' = step_results \o skipped
       /\ events' = events \o report_all(progress_callback, skipped)
    /\ pc' = "summary"
    /\ UNCHANGED <<uwp, window_vars, host, registry, progress_callback, launch_sequence, sessions,
                   sorted_steps, index, outcome, dispatch_vars>>

\* lines 99-113 with a callback that raises when called with the j-th
\* SKIPPED result: the results up to it were appended and reported
SkippedCallbackRaises ==
    /\ pc = "check"
    /\ progress_callback
    /\ stops_workflow(step_results[Len(step_results)], sorted_steps[index + 1])
    /\ LET skipped == skipped_results(sorted_steps, index + 1) IN
       \E j \in 1..Len(skipped) :
          /\ step_results' = step_results \o SubSeq(skipped, 1, j)
          /\ events' = events \o report_all(progress_callback, SubSeq(skipped, 1, j))
                              \o <<Raised(skipped[j].step_index, "skipped")>>
    /\ pc' = callback_exception("summary")
    /\ UNCHANGED <<uwp, window_vars, host, registry, progress_callback, launch_sequence, sessions,
                   sorted_steps, index, outcome, dispatch_vars>>

\* line 118 with the delay never applied
applies_delay_never(i, steps) ==
    FALSE

\* line 118 without the test for the last step
applies_delay_after_last(i, steps) ==
    steps[i + 1].delay_ms > 0

\* the condition of line 118
applies_delay(i, steps) ==
    i < Len(steps) - 1 /\ steps[i + 1].delay_ms > 0

\* lines 118-120: time.sleep(step.delay_ms / 1000.0), then the next iteration
Sleep ==
    /\ pc = "check"
    /\ ~stops_workflow(step_results[Len(step_results)], sorted_steps[index + 1])
    /\ applies_delay(index, sorted_steps)
    /\ events' = Append(events, Slept(index, sorted_steps[index + 1].delay_ms))
    /\ index' = index + 1
    /\ pc' = "execute"
    /\ UNCHANGED <<uwp, window_vars, host, registry, progress_callback, launch_sequence, sessions,
                   sorted_steps, step_results, outcome, dispatch_vars>>

\* line 118 false: the next iteration, or the end of the loop
NextStep ==
    /\ pc = "check"
    /\ ~stops_workflow(step_results[Len(step_results)], sorted_steps[index + 1])
    /\ ~applies_delay(index, sorted_steps)
    /\ index' = index + 1
    /\ pc' = IF index + 1 < Len(sorted_steps) THEN "execute" ELSE "summary"
    /\ UNCHANGED <<uwp, window_vars, host, registry, progress_callback, launch_sequence, sessions,
                   sorted_steps, step_results, outcome, events, dispatch_vars>>

\* sum(1 for r in step_results if r.status == status)
count(results, status) ==
    Cardinality({k \in 1..Len(results) : results[k].status = status})

\* lines 128-134 with a partial failure counted as a success
overall_status_partial_ok(successful, failed) ==
    IF failed > 0 /\ successful = 0 THEN "failed" ELSE "success"

\* lines 128-134
overall_status(successful, failed) ==
    IF failed > 0 /\ successful = 0 THEN "failed"
    ELSE IF failed > 0 THEN "failed"
    ELSE "success"

\* lines 122-153: the summary and the returned WorkflowExecutionResult
Summary ==
    /\ pc = "summary"
    /\ outcome' = [status |-> overall_status(count(step_results, "success"),
                                             count(step_results, "failed")),
                   step_results |-> step_results,
                   successful_steps |-> count(step_results, "success"),
                   failed_steps |-> count(step_results, "failed"),
                   skipped_steps |-> count(step_results, "skipped")]
    /\ pc' = "done"
    /\ UNCHANGED <<uwp, window_vars, host, registry, progress_callback, launch_sequence, sessions,
                   sorted_steps, index, step_results, events, dispatch_vars>>

\* ---------------------------------------------------------------------
\* Dispatch and direct launch
\* ---------------------------------------------------------------------
NoRequest == [kind |-> "none"]

\* LauncherFactory.register_launcher(app_name, launcher_class)
RegisterLauncher ==
    LET
        \* classes extensions register
        ExtensionClasses == {"GenericAppLauncher", "ChromeLauncher"}
    IN
    /\ \E app_name \in {"Chrome", "slack", "calculator"}, launcher_class \in ExtensionClasses :
          registry' = register_launcher(registry, app_name, launcher_class)
    /\ registry' # registry
    /\ UNCHANGED <<uwp, window_vars, host, workflow_vars, dispatch_vars>>

\* LauncherFactory.unregister_launcher(app_name)
UnregisterLauncher ==
    /\ \E app_name \in {"Chrome", "slack", "calculator"} :
          registry' = unregister_launcher(registry, app_name)
    /\ registry' # registry
    /\ UNCHANGED <<uwp, window_vars, host, workflow_vars, dispatch_vars>>

\* LauncherFactory.create_launcher(launch_config)
CreateLauncher ==
    LET
        DispatchConfigs ==
            LET
                \* the LaunchSpecs handed to the dispatcher
                app_type_of_name(n) ==
                    CASE n \in {"chrome", "Chrome"} -> "browser"
                      [] n = "vscode" -> "editor"
                      [] n = "slack" -> "communication"
                      [] OTHER -> "generic"
            IN
            {LaunchConfig(app_type_of_name(n), n, Parameters(p, "")) :
                n \in {"chrome", "Chrome", "vscode", "slack", "MyTool", "calculator"},
                p \in {"", ToolPath}}
    IN
    /\ \E launch_config \in DispatchConfigs :
          /\ request' = [kind |-> "request", config |-> launch_config,
                         registered |-> lower(launch_config.app_name) \in DOMAIN registry]
          /\ launcher' = create_launcher(registry, launch_config, host)
    /\ launch_result' = NoResult
    /\ session_launch' = NoResult
    /\ UNCHANGED <<uwp, window_vars, host, registry, workflow_vars>>

\* launcher.launch() on the launcher create_launcher returned
Launch ==
    /\ launcher.kind = "launcher"
    /\ launch_result = NoResult
    /\ launch_result' = launch(launcher, host)
    /\ UNCHANGED <<uwp, window_vars, host, registry, workflow_vars, request, launcher, session_launch>>

\* MainWindow._launch_session (ui/main_window.py): what the user is shown.
\* stage is the statement the call got to (the AppType lookup, create_launcher
\* or launch), reached the class of the launcher whose launch() was invoked.
launch_session(session, reg, h) ==
    LET app_type == AppType_of(session.launch_config.app_type) IN
    IF app_type.kind = "raised"
    THEN [kind |-> "shown", session |-> session.id, dialog |-> "Error",
          stage |-> "app_type", reached |-> "", message |-> app_type.message]
    ELSE
    LET l == create_launcher(reg, session.launch_config, h) IN
    IF l.kind = "raised"
    THEN [kind |-> "shown", session |-> session.id, dialog |-> "Error",
          stage |-> "create", reached |-> "", message |-> l.message]
    ELSE
    LET result == launch(l, h) IN
    IF result.kind = "raised"
    THEN [kind |-> "shown", session |-> session.id, dialog |-> "Error",
          stage |-> "launch", reached |-> l.cls, message |-> result.message]
    ELSE [kind |-> "shown", session |-> session.id,
          dialog |-> IF result.success THEN "Success" ELSE "Launch Failed",
          stage |-> "launch", reached |-> l.cls, message |-> result.message]

LaunchSession ==
    /\ \E k \in 1..Len(AllSessions) :
          session_launch' = launch_session(AllSessions[k], registry, host)
    /\ request' = NoRequest
    /\ launcher' = NoResult
    /\ launch_result' = NoResult
    /\ UNCHANGED <<uwp, window_vars, host, registry, workflow_vars>>

\* ---------------------------------------------------------------------
\* Specifications
\* ---------------------------------------------------------------------
\* sequences over S of length at most n
SeqsUpTo(S, n) == UNION {[1..k -> S] : k \in 0..n}

\* no window manager call, on a desktop without windows
NoCall ==
    [op |-> "none", pc |-> "idle", process_id |-> 0, timeout |-> 0,
     elapsed |-> 0, app_name |-> "", state |-> NoState, pids_to_check |-> {},
     hwnd |-> 0, result |-> NoResult, seen |-> {}, polled |-> FALSE,
     verbs |-> <<>>, prior |-> <<>>]

(***************************************************************************)
(* launchers/apps/uwp.py: the cache of installed packaged apps.  The clock *)
(* counts units of 100 seconds.                                            *)
(***************************************************************************)

MaxClock == 5

\* _CACHE_TTL_SECONDS = 300, in units of 100 seconds
CACHE_TTL_SECONDS == 3

\* Optional[List[...]] = None
None == [kind |-> "none"]

\* the module globals when the module is loaded; last: no call made yet
ModuleLoaded ==
    [cache |-> None, cache_time |-> 0, now |-> 0, last |-> [kind |-> "none"]]

\* the packages the PowerShell script can list, in the order of their
\* lower-cased display names
Packages ==
    LET Package(display_name, name) ==
            [DisplayName |-> display_name,
             PackageFamilyName |-> <<name, "_8wekyb3d8bbwe">>,
             Name |-> name]
    IN  << Package("", "Microsoft.Windows.Unnamed"),
           Package("Calculator", "Microsoft.WindowsCalculator"),
           Package("Mail & Calendar", "microsoft.windowscommunicationsapps"),
           Package("VCLibs", "Microsoft.VCLibs.140.00") >>

\* subprocess.run: it completed with an exit status and an output (the
\* packages its JSON lists), or it timed out, could not start, or printed
\* what json.loads rejects
SubprocessRuns ==
    LET Stdouts == {<<>>, <<Packages[3], Packages[2]>>,
                    <<Packages[2], Packages[4]>>, <<Packages[1], Packages[3]>>}
    IN  [kind : {"completed"}, returncode : {0, 1}, stdout : Stdouts]
            \cup {[kind |-> "raised"]}

\* the loop over raw_apps, then the sort by display name
apps_with_details(stdout) ==
    LET \* the names that contain an entry of _EXCLUDED_PACKAGES
        ExcludedNames == {"Microsoft.VCLibs.140.00"}
        kept(app) ==
            /\ \E i \in 1..Len(stdout) : stdout[i] = app
            /\ app.DisplayName # ""
            /\ app.PackageFamilyName # ""
            /\ app.Name \notin ExcludedNames
        details(app) ==
            [display_name |-> app.DisplayName,
             aumid |-> <<app.PackageFamilyName, "!", "App">>,
             name |-> app.Name]
        sorted_apps == SelectSeq(Packages, kept)
    IN  [i \in 1..Len(sorted_apps) |-> details(sorted_apps[i])]

cache_is_fresh(globals, force_refresh) ==
    /\ ~force_refresh
    /\ globals.cache # None
    /\ globals.now - globals.cache_time < CACHE_TTL_SECONDS

\* the globals after the call; .last holds what the call did and returned,
\* and seq, the number of calls made so far modulo 2
get_installed_uwp_apps_with_details(globals, platform, force_refresh, run) ==
    LET UwpCall(queried, returned) ==
            [kind |-> "call", force_refresh |-> force_refresh,
             queried |-> queried, run |-> run, returned |-> returned,
             seq |-> IF globals.last.kind = "none"
                     THEN 1 ELSE 1 - globals.last.seq]
        parsed ==
            IF run.returncode = 0 /\ run.stdout # <<>>
            THEN apps_with_details(run.stdout)
            ELSE <<>>
    IN  IF platform # "win32"
        THEN [globals EXCEPT !.last = UwpCall(FALSE, <<>>)]
        ELSE IF cache_is_fresh(globals, force_refresh)
        THEN [globals EXCEPT !.last = UwpCall(FALSE, globals.cache.apps)]
        ELSE IF run.kind = "raised"
        THEN [globals EXCEPT !.last = UwpCall(TRUE, <<>>)]
        \* the cache is updated after the test of the exit status and the
        \* output, whatever the test said (lines 557-562)
        ELSE [globals EXCEPT !.cache = [kind |-> "list", apps |-> parsed],
                             !.cache_time = globals.now,
                             !.last = UwpCall(TRUE, parsed)]

clear_uwp_cache(globals) ==
    [globals EXCEPT !.cache = None, !.cache_time = 0]

NoWindows ==
    LET
        EmptyDesktop ==
            [windows |-> [h \in Hwnds |-> Window("hidden", InitialRect(h), FALSE)],
             root_live |-> FALSE, child_live |-> FALSE]
    IN
    /\ desktop = EmptyDesktop
    /\ wm = NoCall

\* the state before execute_workflow is called, all but the arguments
Constructed ==
    /\ registry = InitialRegistry(host.platform)
    /\ uwp = ModuleLoaded
    /\ progress_callback = FALSE
    /\ pc = "idle"
    /\ sessions = AllSessions
    /\ sorted_steps = <<>>
    /\ index = 0
    /\ step_results = <<>>
    /\ outcome = NoOutcome
    /\ events = <<>>
    /\ request = NoRequest
    /\ launcher = NoResult
    /\ launch_result = NoResult
    /\ session_launch = NoResult

Init ==
    LET
        \* Sequencing: workflows of up to MaxSteps steps that refer to an installed
        \* browser or to a session that does not exist
        \* (a step that cannot fail never reads continue_on_failure: the flag and a
        \* zero delay are varied on the launchable step only)
        SequencingSteps ==
            LET
                StepsOver(refs, inlines) ==
                    LET
                        Delays == {0, 500}
                    IN
                    {WorkflowStep(o, d, r.ref, r.inline, c) :
                        o \in 0..MaxOrder, d \in Delays, c \in BOOLEAN,
                        r \in {[ref |-> x, inline |-> NoConfig] : x \in refs}
                              \cup {[ref |-> "", inline |-> x] : x \in inlines}}
            IN
            {st \in StepsOver({"s-chrome", "s-missing"}, {}) :
                st.delay_ms = 0 <=> (st.session_ref = "s-chrome" /\ ~st.continue_on_failure)}
        SequencingHosts ==
            {h \in Hosts : h.platform = "linux" /\ h.exists = {"chrome"} /\ h.popen = "ok"}
    IN
    /\ host \in SequencingHosts
    /\ launch_sequence \in SeqsUpTo(SequencingSteps, MaxSteps)
    /\ Constructed
    /\ NoWindows

Next ==
    \/ SetProgressCallback
    \/ Start
    \/ ExecuteStep
    \/ ProgressCallback
    \/ StopOnFailure
    \/ Sleep
    \/ NextStep
    \/ Summary

Spec == Init /\ [][Next]_vars

\* Sequencing with a progress callback that may raise
NextCallback ==
    \/ SetProgressCallback
    \/ Start
    \/ ExecuteStep
    \/ ProgressCallback
    \/ ProgressCallbackRaises
    \/ StopOnFailure
    \/ SkippedCallbackRaises
    \/ Sleep
    \/ NextStep
    \/ Summary

SpecCallback == Init /\ [][NextCallback]_vars

\* Step resolution: workflows of up to MaxTargetSteps steps over every kind of
\* step target, on hosts that differ in what is installed and in what the
\* process spawn does; the progress callback is set
InlineTool == LaunchConfig("generic", "MyTool", Parameters(ToolPath, ""))

InitSteps ==
    LET
        TargetSteps ==
            LET
                InlineCalc == LaunchConfig("generic", "calculator", Parameters("", ""))
            IN
            {WorkflowStep(0, 500, r.ref, r.inline, c) :
                c \in BOOLEAN,
                r \in {[ref |-> x, inline |-> NoConfig] :
                          x \in {"s-chrome", "s-code", "s-slack", "s-tool", "s-calc",
                                 "s-missing"}}
                      \cup {[ref |-> "", inline |-> InlineTool],
                            [ref |-> "", inline |-> InlineCalc],
                            [ref |-> "s-missing", inline |-> InlineTool],
                            [ref |-> "s-chrome", inline |-> InlineTool],
                            [ref |-> "", inline |-> NoConfig]}}
        TargetHosts ==
            {h \in Hosts : /\ h.platform \in {"win32", "linux"}
                           /\ h.exists \in {{}, {"chrome", ToolPath}, HostFiles}}
    IN
    /\ host \in TargetHosts
    /\ launch_sequence \in SeqsUpTo(TargetSteps, MaxTargetSteps)
    /\ Constructed
    /\ NoWindows

SpecSteps == InitSteps /\ [][Next]_vars

InitDispatch ==
    LET
        \* Dispatch: the registry under register/unregister, create_launcher,
        \* launch() and the direct launch of a session, on every host
        DispatchHosts ==
            {h \in Hosts : /\ h.platform \in {"win32", "linux"}
                           /\ h.exists \subseteq {"chrome", "slack", ToolPath}}
    IN
    /\ host \in DispatchHosts
    /\ launch_sequence = <<>>
    /\ Constructed
    /\ NoWindows

NextDispatch ==
    \/ RegisterLauncher
    \/ UnregisterLauncher
    \/ CreateLauncher
    \/ Launch
    \/ LaunchSession

SpecDispatch == InitDispatch /\ [][NextDispatch]_vars

\* LauncherFactory.create_launcher(launch_config) on one of LaunchSpecs
CreateLaunchSpec ==
    LET
        \* Launch: one LaunchSpec of each category resolved and launched, with and
        \* without the parameters of its category, on every host
        LaunchSpecs ==
            LET
                NotATabList == [kind |-> "str", urls |-> <<>>]
            IN
            {LaunchConfig("browser", "chrome", BrowserParameters(t)) :
                t \in {NoTabs, TabList(<<>>), TabList(<<"url">>), NotATabList}}
            \cup {LaunchConfig("editor", "vscode", EditorParameters(p, w, f)) :
                p \in {"", CodePath}, w \in {"", "ws"}, f \in {"", "dir"}}
            \cup {LaunchConfig("generic", n, Parameters(p, "")) :
                n \in {"obsidian", "MyTool"}, p \in {"", ToolPath}}
    IN
    /\ \E launch_config \in LaunchSpecs :
          /\ request' = [kind |-> "request", config |-> launch_config,
                         registered |-> lower(launch_config.app_name) \in DOMAIN registry]
          /\ launcher' = create_launcher(registry, launch_config, host)
    /\ launch_result' = NoResult
    /\ session_launch' = NoResult
    /\ UNCHANGED <<uwp, window_vars, host, registry, workflow_vars>>

InitLaunch ==
    LET
        LaunchHosts == {h \in Hosts : "slack" \notin h.exists}
    IN
    /\ host \in LaunchHosts
    /\ launch_sequence = <<>>
    /\ Constructed
    /\ NoWindows

NextLaunch ==
    \/ CreateLaunchSpec
    \/ Launch

SpecLaunch == InitLaunch /\ [][NextLaunch]_vars

\* ---------------------------------------------------------------------
\* WindowManager.get_window_state / set_window_state, one action per step
\* ---------------------------------------------------------------------
\* longest timeout of a call, in polling intervals (time.sleep(0.2))
MaxTimeout == 2

\* the states set_window_state is called with
TargetStates == {WindowState(100, 50, 640, 480, 0, m, FALSE) : m \in BOOLEAN}

Call(op, process_id, timeout, app_name, state) ==
    [NoCall EXCEPT !.op = op, !.process_id = process_id, !.timeout = timeout,
                   !.app_name = app_name, !.state = state, !.prior = wm.prior]

Return(call, result) == [call EXCEPT !.pc = "returned", !.result = result]

\* _get_window_state_linux: logs a warning and returns None
get_window_state_linux(call) == Return(call, Returned(NoState, FALSE))

\* a Linux stub that reports success
set_window_state_linux_ok(call) == Return(call, Returned(NoState, TRUE))

\* _set_window_state_linux: logs a warning and returns False
set_window_state_linux(call) == Return(call, Returned(NoState, FALSE))

\* get_window_state(process_id, timeout): the dispatch on the platform and
\* the statements before the polling loop; the call as it stands then
get_window_state(process_id, timeout) ==
    LET call == Call("capture", process_id, timeout, "", NoState) IN
    CASE host.platform = "win32" ->
            [call EXCEPT !.pc = "poll",
                         !.pids_to_check = refresh_pids({process_id}, process_id, desktop)]
      [] host.platform = "darwin" ->
            IF live(process_id, desktop)
            THEN [call EXCEPT !.pc = "poll"]
            ELSE Return(call, Returned(NoState, FALSE))
      [] OTHER -> get_window_state_linux(call)

\* set_window_state(process_id, state, timeout, app_name): the dispatch on
\* the platform and the choice of the matching strategy; the call as it
\* stands then
set_window_state(process_id, state, timeout, app_name) ==
    LET call == Call("apply", process_id, timeout, app_name, state) IN
    CASE host.platform = "win32" ->
            IF is_multi_process_app(app_name)
            THEN [call EXCEPT !.pc = "byname"]
            ELSE [call EXCEPT !.pc = "poll",
                              !.pids_to_check =
                                  refresh_pids({process_id}, process_id, desktop)]
      [] host.platform = "darwin" ->
            IF live(process_id, desktop)
            THEN [call EXCEPT !.pc = "script"]
            ELSE Return(call, Returned(NoState, FALSE))
      [] OTHER -> set_window_state_linux(call)

\* a call of get_window_state
GetWindowState ==
    /\ wm.op = "none"
    /\ wm.prior = <<>>
    /\ \E process_id \in {RootPid, EdgePid}, timeout \in 0..MaxTimeout :
          wm' = get_window_state(process_id, timeout)
    /\ UNCHANGED <<uwp, desktop, host, registry, workflow_vars, dispatch_vars>>

\* a call of set_window_state
SetWindowState ==
    LET
        Hints == {"", "chrome", "edge", "vscode"}
    IN
    /\ wm.op = "none"
    /\ wm.prior = <<>>
    /\ \E process_id \in {RootPid, EdgePid}, timeout \in 0..MaxTimeout, app_name \in Hints,
          state \in TargetStates :
          wm' = set_window_state(process_id, state, timeout, app_name)
    /\ UNCHANGED <<uwp, desktop, host, registry, workflow_vars, dispatch_vars>>

\* _find_window_by_pid_windows, one turn of the while loop: the test of the
\* deadline, the refreshed process tree, EnumWindows, and time.sleep(0.2)
PollByPid ==
    /\ wm.pc = "poll"
    /\ host.platform = "win32"
    /\ IF wm.elapsed < wm.timeout
       THEN LET pids == refresh_pids(wm.pids_to_check, wm.process_id, desktop)
                h == enum_windows_by_pid(pids, desktop)
                polled == [wm EXCEPT !.pids_to_check = pids,
                                     !.polled = TRUE,
                                     !.seen = @ \cup windows_of_tree(wm.process_id, desktop)]
            IN wm' = IF h # 0
                     THEN [polled EXCEPT !.hwnd = h,
                               !.pc = IF wm.op = "capture" THEN "read" ELSE "position"]
                     ELSE [polled EXCEPT !.elapsed = time_sleep(@)]
       ELSE wm' = IF wm.op = "apply" /\ wm.app_name # ""
                  THEN [wm EXCEPT !.pc = "byname"]
                  ELSE Return(wm, Returned(NoState, FALSE))
    /\ UNCHANGED <<uwp, desktop, host, registry, workflow_vars, dispatch_vars>>

\* lines 119-144: the placement and rectangle of the window found
ReadWindow ==
    /\ wm.pc = "read"
    /\ wm' = Return(wm, except_returns(read_window_state(wm.hwnd, desktop),
                                       Returned(NoState, FALSE)))
    /\ UNCHANGED <<uwp, desktop, host, registry, workflow_vars, dispatch_vars>>

\* _get_window_state_macos, one turn of the while loop
PollMacos ==
    /\ wm.pc = "poll"
    /\ host.platform = "darwin"
    /\ IF wm.elapsed < wm.timeout
       THEN LET h == macos_window_of(wm.process_id, desktop)
                w == desktop.windows[h]
                polled == [wm EXCEPT !.polled = TRUE,
                                     !.seen = @ \cup windows_of_tree(wm.process_id, desktop)]
            IN wm' = IF h # 0
                     THEN Return([polled EXCEPT !.hwnd = h],
                                 Returned(WindowState(w.rect.x, w.rect.y, w.rect.width,
                                                      w.rect.height, 0, FALSE, FALSE),
                                          FALSE))
                     ELSE [polled EXCEPT !.elapsed = time_sleep(@)]
       ELSE wm' = Return(wm, Returned(NoState, FALSE))
    /\ UNCHANGED <<uwp, desktop, host, registry, workflow_vars, dispatch_vars>>

\* _find_window_by_app_name: time.sleep(2.0), then one EnumWindows pass
FindByAppName ==
    /\ wm.pc = "byname"
    /\ LET h == find_window_by_app_name(wm.app_name, desktop, host.platform) IN
       wm' = IF h = 0 THEN Return(wm, Returned(NoState, FALSE))
             ELSE [wm EXCEPT !.hwnd = h, !.pc = "position"]
    /\ UNCHANGED <<uwp, desktop, host, registry, workflow_vars, dispatch_vars>>

\* lines 169-200: the calls on the handle found; on a handle whose window is
\* gone ShowWindow does nothing and SetWindowPos fails
PositionWindow ==
    /\ wm.pc = "position"
    /\ LET w == desktop.windows[wm.hwnd]
           p == position_window(w, wm.state)
       IN IF w.shown = "closed"
          THEN /\ \E ok \in BOOLEAN :
                    wm' = Return([wm EXCEPT !.verbs = p.verbs], Returned(NoState, ok))
               /\ UNCHANGED desktop
          ELSE /\ desktop' = [desktop EXCEPT !.windows[wm.hwnd] = p.window]
               /\ wm' = Return([wm EXCEPT !.verbs = p.verbs], Returned(NoState, TRUE))
    /\ UNCHANGED <<uwp, host, registry, workflow_vars, dispatch_vars>>

\* _set_window_state_macos, lines 548-607: time.sleep(0.5), then the
\* AppleScript that moves and resizes window 1 of the application; osascript
\* fails when there is no such window or the permission is not granted
RunScript ==
    /\ wm.pc = "script"
    /\ LET app_name == app_name_map(process_name(wm.process_id, "darwin"))
           h == script_window_of(app_name, desktop)
       IN \E granted \in BOOLEAN :
            IF h # 0 /\ granted
            THEN /\ desktop' = [desktop EXCEPT !.windows[h].rect =
                                    Rect(wm.state.x, wm.state.y,
                                         wm.state.width, wm.state.height)]
                 /\ wm' = Return([wm EXCEPT !.hwnd = h, !.verbs = <<"setpos">>],
                                 Returned(NoState, TRUE))
            ELSE /\ wm' = Return(wm, Returned(NoState, FALSE))
                 /\ UNCHANGED desktop
    /\ UNCHANGED <<uwp, host, registry, workflow_vars, dispatch_vars>>

\* the launched process spawns its child process
SpawnChild ==
    /\ desktop.root_live
    /\ ~desktop.child_live
    /\ desktop' = [desktop EXCEPT !.child_live = TRUE]
    /\ UNCHANGED <<uwp, wm, host, registry, workflow_vars, dispatch_vars>>

\* a process shows one of its windows
ShowWindow ==
    /\ \E h \in Hwnds :
          /\ desktop.windows[h].shown = "hidden"
          /\ live(owner(h), desktop)
          /\ desktop' = [desktop EXCEPT !.windows[h].shown = "visible"]
    /\ UNCHANGED <<uwp, wm, host, registry, workflow_vars, dispatch_vars>>

\* the window found is closed before the call reads or moves it
DestroyWindow ==
    /\ wm.pc \in {"read", "position"}
    /\ desktop.windows[wm.hwnd].shown # "closed"
    /\ desktop' = [desktop EXCEPT !.windows[wm.hwnd].shown = "closed"]
    /\ UNCHANGED <<uwp, wm, host, registry, workflow_vars, dispatch_vars>>

\* the desktops a call can start on: a window of a process that is not
\* running is not shown
Desktops ==
    {[windows |-> [h \in Hwnds |-> Window(f[h], InitialRect(h), FALSE)],
      root_live |-> r, child_live |-> c] :
        f \in [Hwnds -> {"hidden", "visible", "minimized"}],
        r \in BOOLEAN, c \in BOOLEAN}

InitWindows ==
    /\ host \in {h \in Hosts : h.exists = {} /\ h.popen = "ok"}
    /\ launch_sequence = <<>>
    /\ Constructed
    /\ wm = NoCall
    /\ desktop \in Desktops
    /\ desktop.child_live => desktop.root_live
    /\ \A h \in Hwnds :
          /\ desktop.windows[h].shown # "hidden" => live(owner(h), desktop)
          /\ desktop.windows[h].shown = "minimized" => h = 3

NextWindows ==
    \/ GetWindowState
    \/ SetWindowState
    \/ PollByPid
    \/ ReadWindow
    \/ PollMacos
    \/ FindByAppName
    \/ PositionWindow
    \/ RunScript
    \/ SpawnChild
    \/ ShowWindow
    \/ DestroyWindow

SpecWindows == InitWindows /\ [][NextWindows]_vars

\* ---------------------------------------------------------------------
\* src/test_window_positioning.py: calls made one after the other on a
\* desktop that nothing else changes
\* ---------------------------------------------------------------------
\* most calls made one after the other
MaxCalls == 4

\* the call has returned and the caller goes on to its next statement
NextCall ==
    LET
        \* a call that has returned, as the next calls remember it
        Made(call) ==
            [op |-> call.op, hwnd |-> call.hwnd, state |-> call.state, result |-> call.result]
    IN
    /\ wm.pc = "returned"
    /\ Len(wm.prior) < MaxCalls - 1
    /\ wm' = [NoCall EXCEPT !.prior = Append(wm.prior, Made(wm))]
    /\ UNCHANGED <<uwp, desktop, host, registry, workflow_vars, dispatch_vars>>

\* wm.get_window_state(pid, timeout=...) (test lines 79, 122)
Capture ==
    /\ wm.op = "none"
    /\ wm' = get_window_state(RootPid, MaxTimeout)
    /\ UNCHANGED <<uwp, desktop, host, registry, workflow_vars, dispatch_vars>>

\* wm.set_window_state(pid, target_state, timeout=...) (test lines 96-110)
ApplyTarget ==
    /\ wm.op = "none"
    /\ \E state \in TargetStates :
          wm' = set_window_state(RootPid, state, MaxTimeout, "")
    /\ UNCHANGED <<uwp, desktop, host, registry, workflow_vars, dispatch_vars>>

\* set_window_state with the state the call before it captured
ApplyCaptured ==
    /\ wm.op = "none"
    /\ wm.prior # <<>>
    /\ LET last == wm.prior[Len(wm.prior)] IN
          /\ last.op = "capture"
          /\ last.result.state # NoState
          /\ wm' = set_window_state(RootPid, last.result.state, MaxTimeout, "")
    /\ UNCHANGED <<uwp, desktop, host, registry, workflow_vars, dispatch_vars>>

InitRoundTrip ==
    /\ InitWindows
    /\ host.platform \in {"win32", "darwin"}

NextRoundTrip ==
    \/ Capture
    \/ ApplyTarget
    \/ ApplyCaptured
    \/ NextCall
    \/ PollByPid
    \/ ReadWindow
    \/ PollMacos
    \/ PositionWindow
    \/ RunScript

SpecRoundTrip == InitRoundTrip /\ [][NextRoundTrip]_vars

\* ---------------------------------------------------------------------
\* MainWindow._launch_session with the positioning thread
\* ---------------------------------------------------------------------
\* a positioning thread whose failure is reported as a failed launch
fail_on_positioning(shown, success) ==
    IF success THEN shown ELSE [shown EXCEPT !.dialog = "Launch Failed"]

\* lines 903-908: the end of position_window only writes to the log
log_positioning(shown, success) == shown

\* _launch_session up to thread.start() (lines 868-911): the launch, its
\* result, and for a successful launch of a session with a saved window
\* state the start of the positioning thread
LaunchSessionAndPosition ==
    LET
        \* session.metadata.window_state: None, a saved state, or a malformed dict
        SavedWindowStates == {NoState, [kind |-> "malformed"]} \cup TargetStates
    IN
    /\ session_launch = NoResult
    /\ \E k \in 1..Len(AllSessions), window_state \in SavedWindowStates :
          LET session == AllSessions[k]
              shown == launch_session(session, registry, host)
              success == shown.dialog = "Success"
          IN /\ session_launch' =
                    [shown EXCEPT !.kind = IF success THEN "launched" ELSE "shown"]
             /\ desktop' = IF success THEN [desktop EXCEPT !.root_live = TRUE]
                                      ELSE desktop
             /\ wm' = IF success /\ window_state # NoState
                      THEN [Call("apply", RootPid, MaxTimeout,
                                 session.launch_config.app_name, window_state)
                               EXCEPT !.pc = "thread"]
                      ELSE wm
    /\ request' = NoRequest
    /\ launcher' = NoResult
    /\ launch_result' = NoResult
    /\ UNCHANGED <<uwp, host, registry, workflow_vars>>

\* lines 913-916: _show_success_message, on the thread of the GUI
ShowSuccessMessage ==
    /\ session_launch # NoResult
    /\ session_launch.kind = "launched"
    /\ session_launch' = [session_launch EXCEPT !.kind = "shown"]
    /\ request' = request
    /\ launcher' = launcher
    /\ launch_result' = launch_result
    /\ UNCHANGED <<uwp, window_vars, host, registry, workflow_vars>>

\* position_window lines 896-905: WindowState.from_dict, which raises on a
\* malformed dict, and the call of set_window_state
PositionWindowThread ==
    /\ wm.pc = "thread"
    /\ wm' = IF wm.state = [kind |-> "malformed"]
             THEN Return(wm, raised("TypeError", <<"unexpected keyword argument">>, FALSE))
             ELSE set_window_state(wm.process_id, wm.state, wm.timeout, wm.app_name)
    /\ UNCHANGED <<uwp, desktop, host, registry, workflow_vars, dispatch_vars>>

\* position_window lines 903-908: the outcome is logged, also the exception
\* (except Exception as e: self.logger.error)
LogPositioning ==
    /\ wm.op = "apply"
    /\ wm.pc = "returned"
    /\ session_launch' =
          log_positioning(session_launch, wm.result.kind = "returned" /\ wm.result.ok)
    /\ wm' = [wm EXCEPT !.pc = "logged"]
    /\ request' = request
    /\ launcher' = launcher
    /\ launch_result' = launch_result
    /\ UNCHANGED <<uwp, desktop, host, registry, workflow_vars>>

\* before the launch the process of the session is not running and has no
\* window
InitPositioning ==
    LET
        PositioningHosts ==
            {h \in Hosts : h.exists \subseteq {"chrome", ToolPath} /\ h.popen \in {"ok", "OSError"}}
    IN
    /\ host \in PositioningHosts
    /\ launch_sequence = <<>>
    /\ Constructed
    /\ wm = NoCall
    /\ desktop \in Desktops
    /\ ~desktop.root_live
    /\ ~desktop.child_live
    /\ \A h \in Hwnds : h # 1 => desktop.windows[h].shown = "hidden"
    /\ desktop.windows[1].shown # "minimized"

NextPositioning ==
    \/ LaunchSessionAndPosition
    \/ ShowSuccessMessage
    \/ PositionWindowThread
    \/ LogPositioning
    \/ PollByPid
    \/ FindByAppName
    \/ PositionWindow
    \/ RunScript
    \/ SpawnChild
    \/ ShowWindow
    \/ DestroyWindow

SpecPositioning == InitPositioning /\ [][NextPositioning]_vars

\* the statements of a call that has begun; the thread that makes the call
\* keeps running, and each statement (an enumeration, a sleep, a script run
\* with timeout=10) ends
CallStep ==
    \/ PollByPid
    \/ ReadWindow
    \/ PollMacos
    \/ FindByAppName
    \/ PositionWindow
    \/ RunScript

SpecWindowsFair == SpecWindows /\ WF_vars(CallStep)

\* ---------------------------------------------------------------------
\* Properties
\* ---------------------------------------------------------------------
\* the steps of the results reported so far, in reporting order
Reported == [k \in 1..Len(step_results) |-> step_results[k].step]

\* every arrangement of the sequence sq
Arrangements(sq) ==
    {[k \in 1..Len(sq) |-> sq[f[k]]] : f \in Permutations(1..Len(sq))}

\* the steps of sq whose order is o, in their positions' order
RECURSIVE with_order(_, _)
with_order(sq, o) ==
    IF sq = <<>> THEN <<>>
    ELSE IF Head(sq).order = o
         THEN <<Head(sq)>> \o with_order(Tail(sq), o)
         ELSE with_order(Tail(sq), o)

Ascending(sq) == \A a, b \in 1..Len(sq) : a < b => sq[a].order <= sq[b].order

\* p keeps the steps of equal order in the relative position they have in sq
KeepsTies(p, sq) == \A o \in 0..(MaxOrder + 1) : with_order(p, o) = with_order(sq, o)

\* C1 as stated: the run reports the steps in ascending order, and the run of
\* any arrangement of the same step list reports the same sequence.
C1_AnyPermutationSameSequence ==
    pc = "done" =>
        /\ Ascending(Reported)
        /\ \A p \in Arrangements(launch_sequence) : sorted(p) = Reported

\* C1 amended: the run reports every step of the list once, in ascending
\* order, and every arrangement of the list that keeps steps of equal order
\* in their relative position is reported in the same sequence.
C1_ExecutesInAscendingOrder ==
    pc = "done" =>
        /\ Ascending(Reported)
        /\ Reported \in Arrangements(launch_sequence)
        /\ \A p \in Arrangements(launch_sequence) :
              KeepsTies(p, launch_sequence) => sorted(p) = Reported

\* a finished run of a list given in descending order
C1_Witness ==
    /\ pc = "done"
    /\ Len(launch_sequence) >= 2
    /\ launch_sequence[1].order > launch_sequence[2].order
    /\ Reported # launch_sequence
    /\ \A k \in 1..Len(step_results) : step_results[k].status # "skipped"

\* the result at (0-based) step index i stopped the run
Terminated(i) ==
    /\ i + 1 <= Len(step_results)
    /\ step_results[i + 1].status = "failed"
    /\ ~step_results[i + 1].step.continue_on_failure

\* a launcher was created or launched for step index i
Touched(i) ==
    \E k \in 1..Len(events) :
        events[k].index = i /\ events[k].ev \in {"create", "launch"}

\* C2: once the step at index i has ended FAILED with continue-on-failure
\* false, no launcher is ever created or launched for a later step, every
\* later result is SKIPPED, and the finished run has a SKIPPED result for
\* every later step; no step is both launched and reported SKIPPED.
C2_FailureSkipsTheRest ==
    /\ \A i \in 0..(Len(step_results) - 1) :
          Terminated(i) =>
            /\ \A j \in (i + 1)..MaxSteps : ~Touched(j)
            /\ \A j \in (i + 2)..Len(step_results) :
                  step_results[j].status = "skipped"
            /\ pc \in {"summary", "done"} =>
                  /\ Len(step_results) = Len(sorted_steps)
                  /\ \A j \in (i + 2)..Len(sorted_steps) :
                        step_results[j].step = sorted_steps[j]
    /\ \A k \in 1..Len(step_results) :
          step_results[k].status = "skipped" => ~Touched(step_results[k].step_index)

\* a finished run whose first step failed without continue-on-failure, in
\* front of a step that refers to a launchable session
C2_Witness ==
    /\ pc = "done"
    /\ Len(step_results) = 3
    /\ Terminated(0)
    /\ step_results[2].step.session_ref = "s-chrome"
    /\ step_results[2].status = "skipped"
    /\ step_results[3].status = "skipped"

\* C3: the status of a WorkflowOutcome is FAILED exactly when one of its step
\* results is FAILED, also next to successful ones, and SUCCESS otherwise.
C3_FailedIffAnyStepFailed ==
    pc = "done" =>
        LET any_failed == \E k \in 1..Len(step_results) :
                              step_results[k].status = "failed"
        IN /\ outcome.failed_steps > 0 <=> any_failed
           /\ outcome.status = "failed" <=> any_failed
           /\ outcome.status = "success" <=> ~any_failed

\* a partial failure: a finished run with a SUCCESS and a FAILED step
C3_Witness ==
    /\ pc = "done"
    /\ outcome.successful_steps > 0
    /\ outcome.failed_steps > 0
    /\ outcome.status = "failed"

\* the milliseconds slept after the step at index i
SleptAfter(i) ==
    IF \E k \in 1..Len(events) : events[k].ev = "sleep" /\ events[k].index = i
    THEN (CHOOSE e \in {events[k] : k \in 1..Len(events)} :
              e.ev = "sleep" /\ e.index = i).ms
    ELSE 0

\* the loop has gone past the step at index i
Past(i) == index > i \/ pc \in {"summary", "done"}

\* C4: a sleep happens only after a step that did not stop the run and is
\* not the last one, lasts that step's delay, and lies between that step's
\* events and the next step's; past a step that did not stop the run and is
\* not the last, the time slept after it is its delay; after a step that
\* stopped the run there is no sleep at all.
C4_DelayOnlyWhenContinuing ==
    /\ \A k \in 1..Len(events) :
          events[k].ev = "sleep" =>
            LET i == events[k].index IN
            /\ ~Terminated(i)
            /\ i < Len(sorted_steps) - 1
            /\ events[k].ms = sorted_steps[i + 1].delay_ms
            /\ \A a \in 1..(k - 1) :
                  /\ events[a].index <= i
                  /\ events[a].ev = "sleep" => events[a].index < i
            /\ \A b \in (k + 1)..Len(events) : events[b].index > i
    /\ \A i \in 0..(Len(step_results) - 1) :
          /\ (Past(i) /\ step_results[i + 1].status \in {"success", "failed"}
                /\ ~Terminated(i) /\ i < Len(sorted_steps) - 1)
                => SleptAfter(i) = sorted_steps[i + 1].delay_ms
          /\ Terminated(i) =>
                \A k \in 1..Len(events) :
                    events[k].ev = "sleep" => events[k].index < i

\* a finished run in which a step failed with continue-on-failure, was slept
\* after, and the next step ran, ahead of a last step with a delay
C4_Witness ==
    /\ pc = "done"
    /\ Len(step_results) = 3
    /\ step_results[1].status = "failed"
    /\ step_results[1].step.continue_on_failure
    /\ SleptAfter(0) = 500
    /\ step_results[2].status = "success"
    /\ step_results[3].step.delay_ms = 500
    /\ SleptAfter(2) = 0

\* C5: an exception raised while a step's LaunchSpec is resolved, its
\* launcher created or the launcher launched is caught in the step: the step
\* has a FAILED result without a launch result that carries the exception's
\* message, the run goes on as continue-on-failure says, and the finished
\* run reports every step.
C5_ExceptionsBecomeFailedSteps ==
    /\ \A k \in 1..Len(events) :
          events[k].ev = "caught" =>
            LET i == events[k].index IN
            /\ i + 1 <= Len(step_results)
            /\ step_results[i + 1].status = "failed"
            /\ step_results[i + 1].step = sorted_steps[i + 1]
            /\ step_results[i + 1].launch_result = NoResult
            /\ step_results[i + 1].error_message = events[k].text
            /\ events[k].text # <<>>
            /\ (i + 2 <= Len(step_results)) =>
                  (step_results[i + 2].status = "skipped"
                      <=> ~sorted_steps[i + 1].continue_on_failure)
    /\ pc = "done" =>
          /\ Len(outcome.step_results) = Len(launch_sequence)
          /\ outcome.failed_steps >=
                Cardinality({k \in 1..Len(events) : events[k].ev = "caught"})

\* a finished run whose first step raised out of launcher.launch() and whose
\* second step raised out of the launcher's constructor
C5_Witness ==
    /\ pc = "done"
    /\ Len(step_results) = 2
    /\ \E a, b, c \in 1..Len(events) :
          /\ events[a] = Launched(0)
          /\ events[b].ev = "caught" /\ events[b].index = 0
          /\ events[b].what = "ExecutableNotFoundError"
          /\ events[c].ev = "caught" /\ events[c].index = 1
          /\ events[c].what = "ExecutableNotFoundError"
    /\ ~Touched(1)
    /\ step_results[2].step.session_ref = "s-slack"

\* the ids of the sessions handed to execute_workflow
SessionIds == {sessions[k].id : k \in 1..Len(sessions)}

\* C6: a step whose session reference is not among the sessions ends FAILED
\* with a message that contains the reference, no launcher is created or
\* launched for it, and with continue-on-failure the next step is not
\* skipped. Scenario A: the first step refers to a missing session, with
\* continue-on-failure and 500 ms of delay, the second to a browser session;
\* the run sleeps 500 ms and ends FAILED with 1 success, 1 failure, 0 skipped.
C6_MissingSessionReference ==
    /\ \A k \in 1..Len(step_results) :
          (/\ step_results[k].status # "skipped"
           /\ step_results[k].step.session_ref # ""
           /\ step_results[k].step.session_ref \notin SessionIds)
          => /\ step_results[k].status = "failed"
             /\ \E m \in 1..Len(step_results[k].error_message) :
                   step_results[k].error_message[m] = step_results[k].step.session_ref
             /\ ~Touched(k - 1)
             /\ (step_results[k].step.continue_on_failure
                   /\ k + 1 <= Len(step_results))
                  => step_results[k + 1].status # "skipped"
    /\ (/\ pc = "done"
        /\ Len(sorted_steps) = 2
        /\ sorted_steps[1].session_ref = "s-missing"
        /\ sorted_steps[1].continue_on_failure
        /\ sorted_steps[1].delay_ms = 500
        /\ sorted_steps[2].session_ref = "s-chrome")
       => /\ step_results[1].status = "failed"
          /\ SleptAfter(0) = 500
          /\ step_results[2].status = "success"
          /\ outcome.status = "failed"
          /\ outcome.successful_steps = 1
          /\ outcome.failed_steps = 1
          /\ outcome.skipped_steps = 0

\* Scenario A, finished
C6_Witness ==
    /\ pc = "done"
    /\ Len(sorted_steps) = 2
    /\ sorted_steps[1].session_ref = "s-missing"
    /\ sorted_steps[1].continue_on_failure
    /\ sorted_steps[1].delay_ms = 500
    /\ sorted_steps[2].session_ref = "s-chrome"
    /\ \E k \in 1..Len(events) : events[k] = Launched(1)
    /\ outcome.failed_steps = 1

C8_LaunchNeverRaises ==
    launch_result.kind # "raised"

\* C9: create_launcher never raises, also for a registered identifier whose
\* executable is not on this machine; the failure shows only as the failed
\* outcome of launch().
C9_DispatchNeverRaises ==
    /\ launcher.kind # "raised"
    /\ (request.kind = "request" /\ launch_result.kind = "result"
          /\ launcher.cls \in {"SlackLauncher", "SpotifyLauncher"}
          /\ request.config.parameters.executable_path = ""
          /\ "slack" \notin host.exists)
         => ~launch_result.success

\* the application categories a session carries
SessionCategories == {"browser", "editor", "communication", "generic", "uwp"}

\* C10: a launch request of any category a session carries gets past the
\* category lookup to create_launcher, when launched directly and when
\* launched as a workflow step.
C10_NoCategoryRejected ==
    /\ (session_launch.kind = "shown"
          /\ \E k \in 1..Len(AllSessions) :
                /\ AllSessions[k].id = session_launch.session
                /\ AllSessions[k].launch_config.app_type \in SessionCategories)
         => session_launch.stage # "app_type"
    /\ \A k \in 1..Len(events) :
          (events[k].ev = "caught" /\ events[k].what = "ValueError")
            => \A c \in SessionCategories :
                  events[k].text # <<"'", c, "' is not a valid AppType">>

\* the LaunchSpec of the request lacks the parameters of its category
LacksCategoryParameters(config) ==
    \/ config.app_type = "browser" /\ config.parameters.tabs.kind = "absent"
    \/ /\ config.app_type = "editor"
       /\ config.parameters.workspace = ""
       /\ config.parameters.folder = ""

\* C11: launch() of a browser LaunchSpec without a tab list, and of an editor
\* LaunchSpec without a workspace and without a folder, returns a failed
\* outcome and spawns no process.
C11_MissingParametersRejected ==
    (request.kind = "request" /\ launch_result # NoResult
        /\ LacksCategoryParameters(request.config))
      => /\ launch_result.kind = "result"
         /\ ~launch_result.success
         /\ ~launch_result.spawned

\* C12: launch() of the generic launcher reports a failure only when the
\* explicit path is absent and the platform application registry (with the
\* open-by-name call where the OS has it) gives no command; a LaunchSpec
\* without a path whose identifier the registry finds is launched.
C12_GenericTriesRegistry ==
    (request.kind = "request" /\ launch_result # NoResult
        /\ launcher.cls = "GenericAppLauncher"
        /\ request.config.parameters.executable_path = ""
        /\ get_app_launch_command(request.config.app_name, host).found
        /\ host.popen = "ok")
      => launch_result.kind = "result" /\ launch_result.success

\* the calls of the progress callback made so far, in the order made
Calls == SelectSeq(events, LAMBDA e : e.ev = "callback")

\* the position in events of the call made for step index i
CallOf(i) == CHOOSE k \in 1..Len(events) : events[k].ev = "callback" /\ events[k].index = i

\* C13: with a progress callback set, the calls made so far are exactly the
\* results appended so far, one call per result (executed or skipped) in
\* sorted step order, and none is held back: outside the statement that makes
\* the call, every appended result has been reported.  The call for step i
\* comes after the creation and launch of step i, before the sleep after
\* step i and before anything of a later step.
C13_CallbackOncePerResultInOrder ==
    progress_callback =>
        /\ Len(Calls) = IF pc = "callback" THEN Len(step_results) - 1
                        ELSE Len(step_results)
        /\ \A k \in 1..Len(Calls) :
              /\ Calls[k].index = k - 1
              /\ Calls[k].what = step_results[k].status
              /\ step_results[k].step = sorted_steps[k]
        /\ \A k \in 1..Len(events) :
              events[k].ev = "callback" =>
                \A j \in 1..Len(events) :
                    /\ (events[j].index = events[k].index
                          /\ events[j].ev \in {"create", "launch", "caught"}) => j < k
                    /\ (events[j].index = events[k].index
                          /\ events[j].ev = "sleep") => j > k
                    /\ (events[j].index > events[k].index) => j > k

\* a finished run with a callback: a step that ran and was slept after, a
\* step that stopped the run and a skipped step, each reported once
C13_Witness ==
    /\ pc = "done"
    /\ progress_callback
    /\ Len(step_results) = 3
    /\ step_results[1].status = "success"
    /\ step_results[2].status = "failed"
    /\ step_results[3].status = "skipped"
    /\ Len(Calls) = 3
    /\ \E k \in 1..Len(events) :
          /\ events[k].ev = "sleep" /\ events[k].index = 0 /\ events[k].ms = 500
          /\ CallOf(0) < k /\ k < CallOf(1)

\* the step at index i has been started: _execute_step was entered for it
Started(i) ==
    \/ i < index
    \/ i = index /\ pc \in {"callback", "check"}
    \/ i = index /\ pc \in {"summary", "done"} /\ i < Len(step_results)
           /\ step_results[i + 1].status # "skipped"

\* C14: the steps of a run never overlap.  The recorded events are grouped
\* by step in ascending step index, so nothing of a step happens between two
\* events of another; while a step is about to be executed every earlier
\* step has its result and it alone has none; a step that was started has
\* a result that is SUCCESS or FAILED (it ran to completion), and a step
\* that follows it was started only after that result and, when the earlier
\* step has a delay, after the sleep of that delay.
C14_StepsNeverOverlap ==
    /\ \A a, b \in 1..Len(events) : a < b => events[a].index <= events[b].index
    /\ pc = "execute" => Len(step_results) = index
    /\ pc \in {"callback", "check"} => Len(step_results) = index + 1
    /\ \A i \in 0..(Len(sorted_steps) - 1) :
          Started(i) =>
            /\ i < Len(step_results)
            /\ step_results[i + 1].step_index = i
            /\ step_results[i + 1].status \in {"success", "failed"}
    /\ \A i \in 0..(Len(sorted_steps) - 2) :
          (Started(i + 1) \/ (pc = "execute" /\ index = i + 1)) =>
            /\ step_results[i + 1].status \in {"success", "failed"}
            /\ ~Terminated(i)
            /\ sorted_steps[i + 1].delay_ms > 0 =>
                  \E k \in 1..Len(events) :
                      /\ events[k] = Slept(i, sorted_steps[i + 1].delay_ms)
                      /\ \A j \in 1..Len(events) :
                            events[j].index > i => j > k

\* the third step of a run is about to be executed after two steps that ran
\* to completion, each followed by its delay
C14_Witness ==
    /\ pc = "execute"
    /\ index = 2
    /\ step_results[1].status = "failed"
    /\ step_results[2].status = "success"
    /\ \E a, b \in 1..Len(events) :
          /\ a < b
          /\ events[a] = Slept(0, 500)
          /\ events[b] = Slept(1, 500)
          /\ \E l \in (a + 1)..(b - 1) : events[l] = Launched(1)

\* the processes whose windows a call for process_id is about: the process
\* and its live descendants
TreePids(process_id) == {process_id} \cup children(process_id, desktop).pids

\* a capture call has returned
CaptureReturned == wm.op = "capture" /\ wm.pc = "returned"

\* C15: a capture call never raises, whatever the process id and the
\* timeout: what it returns is a geometry or none.  It returns a geometry
\* only of a window it found shown and owned by the process or one of its
\* descendants, so with no visible window of the process during the whole
\* timeout it returns none.
C15_CaptureNeverRaises ==
    CaptureReturned =>
        /\ wm.result.kind = "returned"
        /\ wm.result.state # NoState =>
              /\ wm.hwnd \in Hwnds
              /\ desktop.windows[wm.hwnd].shown \in {"visible", "minimized"}
              /\ owner(wm.hwnd) \in TreePids(wm.process_id)
              /\ wm.polled

\* a capture call found a window that was closed before its placement was
\* read, and returned none
C15_Witness ==
    /\ CaptureReturned
    /\ wm.hwnd \in Hwnds
    /\ desktop.windows[wm.hwnd].shown = "closed"
    /\ wm.result = Returned(NoState, FALSE)

\* C16: every capture and every apply call eventually returns.  A polling
\* loop never runs past its timeout, a call that found no window returns
\* none (capture) or false (apply), and a call that has begun leads to its
\* return.
C16_EveryCallReturns ==
    /\ [](wm.pc = "poll" => wm.elapsed <= wm.timeout)
    /\ [](wm.pc = "returned" /\ wm.hwnd = 0 => wm.result = Returned(NoState, FALSE))
    /\ (wm.op # "none") ~> (wm.pc = "returned")

\* a call polled until its timeout, the longest there is, had elapsed without
\* finding a window, and returned
C16_Witness ==
    /\ wm.pc = "returned"
    /\ wm.polled
    /\ wm.hwnd = 0
    /\ wm.timeout = MaxTimeout
    /\ wm.elapsed = wm.timeout
    /\ wm.result = Returned(NoState, FALSE)

\* no window was closed while the call ran
NothingClosed == \A h \in Hwnds : desktop.windows[h].shown # "closed"

\* C17: when at some polling attempt of a capture call a visible top-level
\* window was owned by the process or by one of its then-live descendants,
\* the call returns a geometry rather than none (on the platforms that
\* have an implementation, for a window with a title, with no window
\* closed meanwhile).
C17_CaptureFindsTreeWindow ==
    /\ CaptureReturned
    /\ host.platform # "linux"
    /\ NothingClosed
    /\ \E h \in wm.seen : title(h) # ""
    => wm.result.state # NoState

\* the verb is among the calls made on the window
Invoked(verb, verbs) == \E k \in 1..Len(verbs) : verbs[k] = verb

\* C18: an apply call that found its window and succeeded has un-minimized
\* the window first when it was minimized, and then either set position and
\* size to the x, y, width and height of the state or, when the state is
\* maximized, invoked the maximize verb and did not set position and size.
C18_ApplyRestoresThenPlaces ==
    [][(/\ wm.op = "apply"
        /\ wm.pc # "returned"
        /\ wm'.pc = "returned"
        /\ wm'.result.ok
        /\ desktop.windows[wm'.hwnd].shown # "closed")
       => LET h == wm'.hwnd
              v == wm'.verbs
          IN /\ Len(v) > 0
             /\ desktop.windows[h].shown = "minimized" => v[1] = "restore"
             /\ desktop'.windows[h].shown = "visible"
             /\ IF wm.state.is_maximized
                THEN /\ v[Len(v)] = "maximize"
                     /\ ~Invoked("setpos", v)
                     /\ desktop'.windows[h].maximized
                ELSE /\ v[Len(v)] = "setpos"
                     /\ ~Invoked("maximize", v)
                     /\ desktop'.windows[h].rect =
                            Rect(wm.state.x, wm.state.y, wm.state.width, wm.state.height)
      ]_vars

\* the hint names one of the applications known to run as several processes
MultiProcessHint(app_name) == app_name # "" /\ lower(app_name) \in multi_process_apps

\* the process runs the executable the patterns list for the app name
Runs(pid, app_name) ==
    lower(process_name(pid, "win32")) = lower(app_patterns[lower(app_name)].process)

\* C19 as stated: an apply call with the hint of a multi-process
\* application performs no PID matching and its result does not depend on
\* the pid: the window it positions is a window of the hinted application,
\* whichever process the pid names.
C19_HintIgnoresPid ==
    /\ wm.op = "apply"
    /\ wm.pc = "returned"
    /\ MultiProcessHint(wm.app_name)
    => /\ ~wm.polled
       /\ wm.hwnd # 0 => Runs(owner(wm.hwnd), wm.app_name)

\* C19, on the platform with the window-handle API: an apply call with the
\* hint of a multi-process application never enters the PID polling loop
\* and never looks at the process tree, and the window it finds is the one
\* the search by window class and executable name gives for the hint on
\* the desktop as it is, a function in which the pid does not occur.
C19_HintBypassesPidMatching ==
    [][(/\ wm'.op = "apply"
        /\ host.platform = "win32"
        /\ MultiProcessHint(wm'.app_name))
       => /\ ~wm'.polled
          /\ wm'.pids_to_check = {}
          /\ wm'.pc # "poll"
          /\ wm'.hwnd # wm.hwnd =>
                wm'.hwnd = find_window_by_app_name(wm'.app_name, desktop, host.platform)
      ]_vars

\* an apply call with the chrome hint and the pid of another application's
\* process positioned a chrome window
C19_Witness ==
    /\ wm.op = "apply"
    /\ wm.pc = "returned"
    /\ host.platform = "win32"
    /\ wm.app_name = "chrome"
    /\ wm.process_id = EdgePid
    /\ wm.result.ok
    /\ wm.hwnd # 0
    /\ owner(wm.hwnd) = RootPid
    /\ desktop.windows[wm.hwnd].rect = Rect(100, 50, 640, 480)

\* C20: a window selected by app-hint matching is visible, has a window
\* class that matches the class pattern of the hinted application and is
\* owned by a process whose executable name equals the executable name of
\* the hinted application; a chrome hint never selects a window of edge,
\* nor an edge hint a window of chrome.
C20_HintSelectsOwnWindow ==
    [][(wm.pc = "byname" /\ wm'.hwnd # 0)
       => LET h == wm'.hwnd
              pattern == app_patterns[lower(wm.app_name)]
          IN /\ IsWindowVisible(h, desktop)
             /\ class_matches(pattern.class, class_name(h))
             /\ lower(process_name(owner(h), host.platform)) = lower(pattern.process)
             /\ wm.app_name = "chrome" => owner(h) # EdgePid
             /\ wm.app_name = "edge" => owner(h) = EdgePid
      ]_vars

\* the chrome hint selected a chrome window although a visible edge window
\* of the same class comes first in the enumeration
C20_Witness ==
    /\ wm.op = "apply"
    /\ wm.pc = "position"
    /\ wm.app_name = "chrome"
    /\ ~wm.polled
    /\ desktop.windows[1].shown = "visible"
    /\ class_name(1) = class_name(wm.hwnd)
    /\ owner(wm.hwnd) \in {RootPid, ChildPid}

(***************************************************************************)
(* The cache of installed packaged apps in use: calls of the two functions *)
(* of launchers/apps/uwp.py as time passes.                                *)
(***************************************************************************)

GetInstalledUwpApps ==
    /\ \E force_refresh \in BOOLEAN, run \in SubprocessRuns :
         uwp' = get_installed_uwp_apps_with_details(
                    uwp, host.platform, force_refresh, run)
    /\ UNCHANGED <<host, registry, progress_callback, workflow_vars,
                   dispatch_vars, window_vars>>

ClearUwpCache ==
    /\ uwp' = clear_uwp_cache(uwp)
    /\ UNCHANGED <<host, registry, progress_callback, workflow_vars,
                   dispatch_vars, window_vars>>

\* time.time() moves on between two calls
TimePasses ==
    /\ uwp.now < MaxClock
    /\ uwp' = [uwp EXCEPT !.now = @ + 1]
    /\ UNCHANGED <<host, registry, progress_callback, workflow_vars,
                   dispatch_vars, window_vars>>

InitUwpCache ==
    /\ host \in {h \in Hosts : /\ h.platform \in {"win32", "linux"}
                                /\ h.exists = {}
                                /\ h.popen = "ok"}
    /\ launch_sequence = <<>>
    /\ Constructed
    /\ NoWindows

NextUwpCache ==
    \/ GetInstalledUwpApps
    \/ ClearUwpCache
    \/ TimePasses

SpecUwpCache == InitUwpCache /\ [][NextUwpCache]_vars

\* the tolerance of the comparison (test lines 128-131: abs(...) < 10)
Tolerance == 10
Near(a, b) == a - b < Tolerance /\ b - a < Tolerance

\* x, y, width and height of the two geometries agree within the tolerance
Close(g, t) ==
    /\ Near(g.x, t.x)
    /\ Near(g.y, t.y)
    /\ Near(g.width, t.width)
    /\ Near(g.height, t.height)

\* a capture returned a geometry of the window that the call before it, a
\* successful apply, had positioned
CapturedAfterApply ==
    /\ CaptureReturned
    /\ wm.result.state # NoState
    /\ wm.prior # <<>>
    /\ wm.prior[Len(wm.prior)].op = "apply"
    /\ wm.prior[Len(wm.prior)].result.ok
    /\ wm.prior[Len(wm.prior)].hwnd = wm.hwnd

\* the apply before the capture applied what a capture before it had
\* returned for the same window
AppliedCaptured ==
    /\ Len(wm.prior) >= 2
    /\ wm.prior[Len(wm.prior) - 1].op = "capture"
    /\ wm.prior[Len(wm.prior) - 1].hwnd = wm.hwnd
    /\ wm.prior[Len(wm.prior) - 1].result.state = wm.prior[Len(wm.prior)].state

\* C21 as stated: a capture made right after a successful apply(T) returns
\* a geometry equal to T within the tolerance, for every T.
C21_CaptureAfterApplyEqualsTarget ==
    CapturedAfterApply => Close(wm.result.state, wm.prior[Len(wm.prior)].state)

\* C21: on a desktop that nothing else changes, capture yielding G, then
\* apply(G), then capture again yields a geometry equal to G within the
\* tolerance, and a capture made right after a successful apply(T) with
\* the maximized flag of T not set equals T within the tolerance.
C21_RoundTrip ==
    CapturedAfterApply =>
        LET applied == wm.prior[Len(wm.prior)].state IN
        (AppliedCaptured \/ ~applied.is_maximized) => Close(wm.result.state, applied)

\* a window was moved, its geometry captured and applied back, and the
\* capture after that returned the same geometry
C21_Witness ==
    /\ CapturedAfterApply
    /\ AppliedCaptured
    /\ Len(wm.prior) = 3
    /\ wm.prior[1].op = "apply"
    /\ wm.prior[1].result.ok
    /\ wm.prior[1].hwnd = wm.hwnd
    /\ wm.result.state = wm.prior[2].result.state
    /\ Close(wm.result.state, wm.prior[1].state)

\* C23: on the platform whose window backend is not implemented, every
\* capture call returns none and every apply call returns false, for every
\* pid, state, timeout and app name, at once (no polling, no search by app
\* name, nothing done to a window) and without raising.
C23_LinuxStubs ==
    (host.platform = "linux" /\ wm.op # "none") =>
        /\ wm.pc = "returned"
        /\ wm.result = Returned(NoState, FALSE)
        /\ wm.hwnd = 0
        /\ ~wm.polled
        /\ wm.verbs = <<>>

\* an apply call with the chrome hint returned false on the platform
\* without a backend while a chrome window was on the screen
C23_Witness ==
    /\ host.platform = "linux"
    /\ wm.op = "apply"
    /\ wm.app_name = "chrome"
    /\ wm.pc = "returned"
    /\ ~wm.result.ok
    /\ desktop.windows[3].shown = "visible"

\* C22: positioning begins only after the launch was found successful, and
\* from then on nothing the positioning thread does (window not found,
\* set_window_state returning False, an exception) changes what the launch
\* is reported as: the Success message with the message of the launch.
C22_PositioningNeverChangesLaunch ==
    [][/\ wm'.op # "none" =>
            /\ session_launch' # NoResult
            /\ session_launch'.kind \in {"launched", "shown"}
            /\ session_launch'.dialog = "Success"
       /\ (session_launch # NoResult /\ session_launch.kind = "launched") =>
            /\ session_launch'.kind \in {"launched", "shown"}
            /\ session_launch'.dialog = "Success"
            /\ session_launch'.message = session_launch.message
       /\ (session_launch # NoResult /\ session_launch.kind = "shown") =>
            session_launch' = session_launch
      ]_vars

\* the launch was reported as successful and the positioning thread ended
\* without having positioned a window
C22_Witness ==
    /\ session_launch # NoResult
    /\ session_launch.kind = "shown"
    /\ session_launch.dialog = "Success"
    /\ wm.pc = "logged"
    /\ wm.result.kind = "returned"
    /\ ~wm.result.ok
    /\ wm.polled

\* the step at sorted position j (from 0) failed and may not be continued
FailedFatally(j) ==
    /\ step_results[j + 1].status = "failed"
    /\ ~sorted_steps[j + 1].continue_on_failure

\* C24: in a finished run every step that no step before it, in sorted
\* order, failed fatally (FAILED with continue_on_failure false) was
\* executed and ended SUCCESS or FAILED, never SKIPPED; so the failure of a
\* step with continue_on_failure true keeps no later step from running.
C24_ContinuesAfterTolerableFailure ==
    pc = "done" =>
        \A i \in 0..(Len(sorted_steps) - 1) :
            (\A j \in 0..(i - 1) : ~FailedFatally(j)) =>
                /\ i < Len(step_results)
                /\ step_results[i + 1].step_index = i
                /\ step_results[i + 1].status \in {"success", "failed"}
                /\ step_results[i + 1].status = "success" =>
                      \E k \in 1..Len(events) : events[k] = Launched(i)

\* a step with continue_on_failure true failed and the step after it was
\* launched
C24_Witness ==
    /\ pc = "done"
    /\ Len(step_results) >= 2
    /\ step_results[1].status = "failed"
    /\ sorted_steps[1].continue_on_failure
    /\ step_results[2].status = "success"
    /\ \E k \in 1..Len(events) : events[k] = Launched(1)

\* C25: the step results of every returned WorkflowExecutionResult hold
\* exactly one result per step of the workflow, in sorted order, each with
\* step_index equal to its position (from 0) and with the step at that
\* position; so successful_steps + failed_steps + skipped_steps is the
\* number of steps, also for a run that was terminated early.
C25_OneResultPerStep ==
    pc = "done" =>
        /\ Len(outcome.step_results) = Len(launch_sequence)
        /\ Len(sorted_steps) = Len(launch_sequence)
        /\ \A k \in 1..Len(outcome.step_results) :
              /\ outcome.step_results[k].step_index = k - 1
              /\ outcome.step_results[k].step = sorted_steps[k]
              /\ outcome.step_results[k].status \in {"success", "failed", "skipped"}
        /\ outcome.successful_steps + outcome.failed_steps + outcome.skipped_steps
              = Len(launch_sequence)

\* a run of three steps that was terminated early returned one result of
\* each status
C25_Witness ==
    /\ pc = "done"
    /\ Len(launch_sequence) = 3
    /\ outcome.successful_steps = 1
    /\ outcome.failed_steps = 1
    /\ outcome.skipped_steps = 1
    /\ outcome.step_results[3].step_index = 2

\* the step at sorted position i (from 0) is recorded with the status
Marked(i, status) ==
    \E k \in 1..Len(step_results) :
        /\ step_results[k].step_index = i
        /\ step_results[k].status = status

\* C26: every recorded status is a StepStatus, and a step is marked RUNNING
\* before its launch configuration is resolved and launched: while the
\* step at the loop index is about to be executed it is recorded as
\* RUNNING.
C26_RunningBeforeLaunch ==
    /\ \A k \in 1..Len(step_results) : step_results[k].status \in StepStatus
    /\ pc = "execute" => Marked(index, "running")

\* the session with the id
SessionOf(ref) == CHOOSE x \in {sessions[k] : k \in 1..Len(sessions)} : x.id = ref

\* the launch configuration a step is to be resolved to: that of the
\* session it refers to when it has a session reference, else its inline
\* one
ResolvedFrom(st) ==
    IF st.session_ref # "" THEN SessionOf(st.session_ref).launch_config
    ELSE st.inline_config

\* a launcher was created for step index i
CreatedFor(i) == \E k \in 1..Len(events) : events[k].index = i /\ events[k].ev = "create"

\* C27: a step with a session reference is resolved from the session, also
\* when it carries an inline configuration: with a reference that is not
\* among the sessions it ends FAILED and nothing is created or launched for
\* it, else the launcher created for it is the one of the session's
\* configuration; a step without a reference is resolved from its inline
\* configuration; a step with neither ends FAILED with nothing created or
\* launched.
C27_SessionReferenceFirst ==
    \A k \in 1..Len(step_results) :
        LET st == step_results[k].step
            i == k - 1
        IN step_results[k].status # "skipped" =>
             IF (st.session_ref # "" /\ st.session_ref \notin SessionIds)
                   \/ (st.session_ref = "" /\ st.inline_config = NoConfig)
             THEN /\ step_results[k].status = "failed"
                  /\ ~Touched(i)
             ELSE LET cfg == ResolvedFrom(st) IN
                  IF cfg.app_type \notin AppType
                  THEN step_results[k].status = "failed" /\ ~Touched(i)
                  ELSE LET l == create_launcher(registry, cfg, host) IN
                       IF l.kind = "raised"
                       THEN step_results[k].status = "failed" /\ ~CreatedFor(i)
                       ELSE \E m \in 1..Len(events) : events[m] = Created(i, l.cls)

\* a step with the reference of the browser session and an inline
\* configuration of another application launched the browser, and a step
\* with neither failed
C27_Witness ==
    /\ pc = "done"
    /\ Len(step_results) = 2
    /\ step_results[1].step.session_ref = "s-chrome"
    /\ step_results[1].step.inline_config = InlineTool
    /\ step_results[1].status = "success"
    /\ events[1] = Created(0, create_launcher(registry, ChromeSession.launch_config, host).cls)
    /\ step_results[2].step.session_ref = ""
    /\ step_results[2].step.inline_config = NoConfig
    /\ step_results[2].status = "failed"
    /\ ~Touched(1)

\* C28: an exception raised by the progress callback leaves
\* execute_workflow: the call that raised is the last thing the run did,
\* the result it was called with is the last one recorded, so no later
\* step is launched and none gets a SKIPPED result, and no
\* WorkflowExecutionResult is returned.
C28_CallbackExceptionPropagates ==
    \A k \in 1..Len(events) :
        events[k].ev = "raise" =>
            /\ k = Len(events)
            /\ events[k - 1] = Called(events[k].index, events[k].what)
            /\ pc = "raised"
            /\ outcome = NoOutcome
            /\ Len(step_results) = events[k].index + 1
            /\ \A i \in (events[k].index + 1)..(Len(sorted_steps) - 1) : ~Touched(i)

\* the callback raised on the result of the first of three steps; the
\* other two were neither launched nor skipped
C28_Witness ==
    /\ pc = "raised"
    /\ Len(sorted_steps) = 3
    /\ Len(step_results) = 1
    /\ step_results[1].status = "failed"
    /\ ~sorted_steps[1].continue_on_failure
    /\ events[Len(events)] = Raised(0, "failed")
    /\ outcome = NoOutcome

\* C29: the steps are executed in the sequence the stable sort gives: each
\* step of the list has its own place in it, a step of smaller order comes
\* first, and steps of the same order keep the order of their positions in
\* the list; the results follow that sequence.
C29_TiesKeepListOrder ==
    pc # "idle" =>
        /\ Len(sorted_steps) = Len(launch_sequence)
        /\ Ascending(sorted_steps)
        /\ \E f \in [1..Len(launch_sequence) -> 1..Len(launch_sequence)] :
              /\ \A a, b \in 1..Len(launch_sequence) : a # b => f[a] # f[b]
              /\ \A a \in 1..Len(launch_sequence) : sorted_steps[f[a]] = launch_sequence[a]
              /\ \A a, b \in 1..Len(launch_sequence) :
                    (a < b /\ launch_sequence[a].order = launch_sequence[b].order)
                        => f[a] < f[b]
              /\ \A a \in 1..Len(launch_sequence) :
                    f[a] <= Len(step_results) =>
                        step_results[f[a]].step = launch_sequence[a]
        /\ sorted_steps = sorted(launch_sequence)

\* two different steps of the same order, listed before a step of smaller
\* order, ran after it and in the order of the list
C29_Witness ==
    /\ pc = "done"
    /\ Len(launch_sequence) = 3
    /\ launch_sequence[1].order = launch_sequence[2].order
    /\ launch_sequence[1] # launch_sequence[2]
    /\ launch_sequence[3].order < launch_sequence[1].order
    /\ Reported = <<launch_sequence[3], launch_sequence[1], launch_sequence[2]>>
    /\ \A k \in 1..3 : step_results[k].status # "skipped"

\* the query of the system failed: it raised, exited with a non-zero status
\* or printed nothing
FailedQuery(call) ==
    /\ call.kind = "call"
    /\ call.queried
    /\ \/ call.run.kind = "raised"
       \/ call.run.returncode # 0
       \/ call.run.stdout = <<>>

\* this step is a call of get_installed_uwp_apps_with_details
UwpCalled ==
    /\ uwp'.last.kind = "call"
    /\ uwp.last.kind = "call" => uwp'.last.seq # uwp.last.seq

\* the cache holds no successful result (in this model every successful
\* query lists at least one app)
NoSuccessCached == uwp.cache = None \/ uwp.cache.apps = <<>>

\* C30: a call whose query of the system failed returns the empty list and
\* leaves the cache as it was; the call after it, on Windows and with no
\* successful result in the cache, queries the system again; a call made
\* without force_refresh while a result stored less than the lifetime ago is
\* in the cache returns that result and makes no query
C30_FailedQueryNeverCached ==
    [][UwpCalled =>
         /\ FailedQuery(uwp'.last) =>
               /\ uwp'.last.returned = <<>>
               /\ uwp'.cache = uwp.cache
               /\ uwp'.cache_time = uwp.cache_time
         /\ ( /\ host.platform = "win32"
              /\ FailedQuery(uwp.last)
              /\ NoSuccessCached ) => uwp'.last.queried
         /\ ( /\ host.platform = "win32"
              /\ cache_is_fresh(uwp, uwp'.last.force_refresh) ) =>
               /\ ~uwp'.last.queried
               /\ uwp'.last.returned = uwp.cache.apps
    ]_vars

====
